---- MODULE Spec2Model ----
(***************************************************************************)
(* Risk Assessment Engine of the AI Risk Radar backend.                    *)
(*                                                                         *)
(*   backend/tools.py   _normalize_service_name, analyze_service_          *)
(*                      dependencies (find_downstream), assess_business_   *)
(*                      impact                                             *)
(*   backend/main.py    assess_risk (score aggregation, lines 419-435),    *)
(*                      reassess_business_impact, startup_event,           *)
(*                      approve_change, reject_change                      *)
(*   backend/config.py  RISK_WEIGHTS, PRIORITY_ADJUSTMENTS,                *)
(*                      MAX_CALCULATED_RISK                                *)
(*                                                                         *)
(* The specifications share the module, one per component:                 *)
(*   SpecNorm _normalize_service_name                                      *)
(*   SpecDep  analyze_service_dependencies, one step of find_downstream    *)
(*            per action                                                   *)
(*   SpecBiz  assess_business_impact                                       *)
(*   SpecAgg  the score aggregation of assess_risk                         *)
(*   SpecEngine  calls of all operations, interleaved, on one dataset      *)
(*   SpecHttp  the handlers assess_risk and reassess_business_impact       *)
(*   SpecChanges  startup, then assess_risk, approve_change and            *)
(*            reject_change in sequence on the changes in flight           *)
(*                                                                         *)
(* Floating-point scores are kept exactly, as integers counting 1/300      *)
(* ("ticks"): every value the aggregation forms from a score with one      *)
(* decimal, an integer count and the configured weights is a whole number  *)
(* of ticks.                                                               *)
(***************************************************************************)
EXTENDS Integers, Sequences, FiniteSets, TLC

VARIABLES
    serviceDependencies, \* _GUARDIANOPS_DATASET['serviceDependencies']: list of entries
    businessEvents,      \* _GUARDIANOPS_DATASET['businessEvents']: list of events
    httpIn,     \* a request to assess_risk or reassess_business_impact, with the
                \* agent's state for it
    httpOut,    \* what the handler returned or raised
    normIn,     \* _normalize_service_name: the name given
    normOut,    \* _normalize_service_name: what the call returned
    bizIn,      \* assess_business_impact: proposed instant and involved services
    bizOut,     \* assess_business_impact: what the call returned or raised
    target_systems,        \* analyze_service_dependencies: the targets given
    impacted_dependencies, \* analyze_service_dependencies: the set being built
    stack,      \* the nested calls of find_downstream: [system, i], innermost last
    targetIdx,  \* the position of the loop over the targets (tools.py 119)
    depPc,      \* "loop" while analyze_service_dependencies runs, then "done"
    depOut,     \* analyze_service_dependencies: what the call returned or raised
    aggIn,      \* assess_risk: the three scores and the priority being aggregated
    aggOut,     \* assess_risk: normalized_risk, credit_score, risk_level
    active_change_requests, \* main.py 42: the list of in-flight change requests
    risk_history_items,     \* main.py 43: incidents and completed changes, newest first
    fileChangeRequests,     \* the 'changeRequests' of the dataset file as json.load
                            \* returned them, or Absent when the file has no such key
    now         \* datetime.now().timestamp(), whole seconds

vars == <<serviceDependencies, businessEvents, httpIn, httpOut, normIn, normOut, target_systems,
          impacted_dependencies, stack, targetIdx, depPc, depOut, bizIn, bizOut,
          aggIn, aggOut, active_change_requests, risk_history_items,
          fileChangeRequests, now>>

depVars == <<target_systems, impacted_dependencies, stack, targetIdx, depPc, depOut>>

normVars == <<normIn, normOut>>

httpVars == <<httpIn, httpOut>>

storeVars == <<active_change_requests, risk_history_items, fileChangeRequests, now>>

NoResult == [kind |-> "none"]
Idle == [kind |-> "idle"]

\* no request is being handled
HttpIdle == httpIn = Idle /\ httpOut = Idle

\* the dataset file has no 'changeRequests'
Absent == [kind |-> "absent", changes |-> <<>>]
Present(changes) == [kind |-> "present", changes |-> changes]

\* startup found neither change requests nor historical failures in the file
\* (main.py 111 and 121-122)
StoreEmpty ==
    /\ active_change_requests = <<>>
    /\ risk_history_items = <<>>
    /\ fileChangeRequests = Absent
    /\ now = 0

\* _normalize_service_name is not called
NormIdle == normIn = Idle /\ normOut = Idle

\* analyze_service_dependencies is not running
DepIdle ==
    /\ target_systems = <<>>
    /\ impacted_dependencies = {}
    /\ stack = <<>>
    /\ targetIdx = 1
    /\ depPc = "idle"
    /\ depOut = Idle

Max2(a, b) == IF a >= b THEN a ELSE b
Min2(a, b) == IF a <= b THEN a ELSE b

(***************************************************************************)
(*            Service names and _normalize_service_name (tools.py)         *)
(***************************************************************************)

\* Python's None, as a name given to _normalize_service_name
None == "<None>"

\* str.lower() on the names that occur
Lower(n) ==
    CASE n = "Auth-Service" -> "auth-service"
      [] n = "User Database" -> "user database"
      [] n = " Billing Service " -> " billing service "
      [] OTHER -> n

\* str.strip() on the names that occur
Strip(n) ==
    CASE n = " billing service " -> "billing service"
      [] n = " Billing Service " -> "Billing Service"
      [] n = " legacy-crm " -> "legacy-crm"
      [] OTHER -> n

\* thefuzz utils.full_process, the default processor of process.extractOne:
\* non-alphanumerics to spaces, lower case, strip
full_process(n) ==
    CASE n \in {"auth-service", "Auth-Service", "auth service"} -> "auth service"
      [] n \in {"user-database", "User Database"} -> "user database"
      [] n \in {"billing-service", " Billing Service "} -> "billing service"
      [] n \in {"legacy-crm", " legacy-crm "} -> "legacy crm"
      [] n = "all-systems" -> "all systems"
      [] n = "payment-api" -> "payment api"
      [] OTHER -> n

\* fuzz.WRatio of two processed strings, the default scorer of process.extractOne
\* (values of the names that occur; equal processed strings score 100)
WRatioProcessed(p, q) ==
    LET pair == {p, q}
    IN  CASE p = q -> 100
          [] pair = {"auth service", "user database"} -> 46
          [] pair = {"auth service", "billing service"} -> 70
          [] pair = {"auth service", "legacy crm"} -> 27
          [] pair = {"auth service", "all systems"} -> 35
          [] pair = {"user database", "billing service"} -> 34
          [] pair = {"user database", "legacy crm"} -> 17
          [] pair = {"user database", "all systems"} -> 32
          [] pair = {"billing service", "legacy crm"} -> 36
          [] pair = {"billing service", "all systems"} -> 38
          [] pair = {"legacy crm", "all systems"} -> 29
          [] pair = {"paymentgateway", "payment api"} -> 64
          [] pair = {"paymentgateway", "auth service"} -> 23
          [] pair = {"paymentgateway", "user database"} -> 30
          [] pair = {"paymentgateway", "billing service"} -> 21
          [] pair = {"paymentgateway", "legacy crm"} -> 40
          [] pair = {"payment api", "auth service"} -> 35
          [] pair = {"payment api", "user database"} -> 25
          [] pair = {"payment api", "billing service"} -> 23
          [] pair = {"payment api", "legacy crm"} -> 29
          [] OTHER -> 0

WRatio(a, b) == WRatioProcessed(full_process(a), full_process(b))

\* main.py 90-100
SERVICE_ALIASES ==
    [k \in {"database server", "api gateway", "authservice", "paymentgateway",
            "user database", "billing service", "checkout ui", "payment api",
            "auth service"} |->
        CASE k = "database server" -> "Database Server"
          [] k = "api gateway" -> "API Gateway"
          [] k = "authservice" -> "auth-service"
          [] k = "paymentgateway" -> "payment-api"
          [] k = "user database" -> "user-database"
          [] k = "billing service" -> "billing-service"
          [] k = "checkout ui" -> "checkout-ui"
          [] k = "payment api" -> "payment-api"
          [] k = "auth service" -> "auth-service"]

\* the acceptance threshold of the fuzzy match, tools.py 35
SCORE_CUTOFF == 85

\* main.py 82-85: SERVICE_DEPENDENCIES_GRAPH, a dict keyed by serviceName (a later
\* entry of the same name replaces the value, the key keeps its first position)
GraphKeys(deps) ==
    LET RECURSIVE keys(_)
        keys(i) ==
            IF i = 0 THEN <<>>
            ELSE LET before == keys(i - 1)
                 IN  IF \E j \in 1..Len(before) : before[j] = deps[i].serviceName
                     THEN before
                     ELSE Append(before, deps[i].serviceName)
    IN  keys(Len(deps))

InGraph(deps, name) == \E i \in 1..Len(deps) : deps[i].serviceName = name

GraphDeps(deps, name) ==
    LET last == CHOOSE i \in 1..Len(deps) :
                    /\ deps[i].serviceName = name
                    /\ \A j \in 1..Len(deps) : deps[j].serviceName = name => j <= i
    IN  deps[last].directDependencies

\* process.extractOne(query, choices, score_cutoff): the first choice of the highest
\* score, if that score reaches the cutoff
extractOne_no_cutoff(query, choices, cutoff) ==
    IF choices = <<>> THEN [found |-> FALSE]
    ELSE LET best == CHOOSE i \in 1..Len(choices) : \A j \in 1..Len(choices) :
                        \/ WRatio(query, choices[j]) < WRatio(query, choices[i])
                        \/ (WRatio(query, choices[j]) = WRatio(query, choices[i]) /\ i <= j)
         IN  [found |-> TRUE, match |-> choices[best]]
extractOne(query, choices, cutoff) ==
    LET ok == {i \in 1..Len(choices) : WRatio(query, choices[i]) >= cutoff}
    IN  IF ok = {} THEN [found |-> FALSE]
        ELSE LET best == CHOOSE i \in ok : \A j \in ok :
                            \/ WRatio(query, choices[j]) < WRatio(query, choices[i])
                            \/ (WRatio(query, choices[j]) = WRatio(query, choices[i]) /\ i <= j)
             IN  [found |-> TRUE, match |-> choices[best]]

\* tools.py 26-45
normalize_service_name(deps, name) ==
    IF name = "" \/ name = None THEN name
    ELSE LET key == Strip(Lower(name))
             aliased_name == IF key \in DOMAIN SERVICE_ALIASES
                             THEN SERVICE_ALIASES[key] ELSE name
             match_result == extractOne(aliased_name, GraphKeys(deps), SCORE_CUTOFF)
         IN  IF match_result.found THEN match_result.match ELSE aliased_name

(***************************************************************************)
(*       _normalize_service_name: the directories and names explored       *)
(***************************************************************************)

\* the names a directory may hold as keys: two that differ only in case, one that
\* differs from them only in punctuation and is an alias key, one that is an alias
\* key of another name
DirectoryNames ==
    {"auth-service", "Auth-Service", "auth service", "user-database",
     "billing-service", "paymentgateway", "legacy-crm"}

\* the names a caller may give: the keys, alias keys in other spellings and with
\* surrounding whitespace, an unknown name with surrounding whitespace, the empty
\* string and None
GivenNames ==
    DirectoryNames \cup {"User Database", " Billing Service ", " legacy-crm ",
                         "payment-api", "", None}

\* a directory holds at most MaxKeys services
MaxKeys == 3

\* a service entry without edges
Service(name) == [serviceName |-> name, directDependencies |-> <<>>, consumedBy |-> <<>>]

\* the directories: lists of distinct services
Directories ==
    UNION { {[i \in 1..m |-> Service(l[i])] :
                l \in {x \in [1..m -> DirectoryNames] :
                          \A i, j \in 1..m : i # j => x[i] # x[j]}} : m \in 0..MaxKeys }

InitNorm ==
    /\ serviceDependencies \in Directories
    /\ businessEvents = <<>>
    /\ normIn \in [name : GivenNames]
    /\ normOut = NoResult
    /\ bizIn = Idle
    /\ bizOut = Idle
    /\ aggIn = Idle
    /\ aggOut = Idle
    /\ DepIdle
    /\ HttpIdle
    /\ StoreEmpty

\* _normalize_service_name, were it to record the name it returns in the directory
Normalize_recording_name ==
    /\ normOut = NoResult
    /\ normOut' = [kind |-> "result",
                   name |-> normalize_service_name(serviceDependencies, normIn.name)]
    /\ serviceDependencies' =
          Append(serviceDependencies,
                 Service(normalize_service_name(serviceDependencies, normIn.name)))
    /\ UNCHANGED <<businessEvents, normIn, depVars, bizIn, bizOut, aggIn, aggOut, httpVars, storeVars>>

\* one call of _normalize_service_name, tools.py 26-45
Normalize ==
    /\ normOut = NoResult
    /\ normOut' = [kind |-> "result",
                   name |-> normalize_service_name(serviceDependencies, normIn.name)]
    /\ UNCHANGED <<serviceDependencies, businessEvents, normIn, depVars,
                   bizIn, bizOut, aggIn, aggOut, httpVars, storeVars>>

NextNorm == Normalize

SpecNorm == InitNorm /\ [][NextNorm]_vars

(***************************************************************************)
(*                _normalize_service_name: the properties                  *)
(***************************************************************************)

NormReturned == normOut # NoResult /\ normOut # Idle

\* the name given is a key of the directory
IsKey(deps, name) == \E i \in 1..Len(deps) : deps[i].serviceName = name

\* C11: a name that is a key of the directory is returned unchanged, whatever the
\* directory
C11_CanonicalNameUnchanged ==
    (NormReturned /\ IsKey(serviceDependencies, normIn.name)) =>
        normOut.name = normIn.name

\* the name given is no alias key once lowercased and trimmed, and no key of the
\* directory reaches the threshold
Unmatched(deps, name) ==
    /\ name \notin {"", None}
    /\ Strip(Lower(name)) \notin DOMAIN SERVICE_ALIASES
    /\ \A i \in 1..Len(deps) : WRatio(name, deps[i].serviceName) < SCORE_CUTOFF

\* C12 as stated: an unmatched name is returned trimmed, a falsy name unchanged
C12_UnmatchedReturnedTrimmed ==
    NormReturned =>
        /\ Unmatched(serviceDependencies, normIn.name) => normOut.name = Strip(normIn.name)
        /\ normIn.name \in {"", None} => normOut.name = normIn.name

\* C12: an unmatched name is returned as it was given, surrounding whitespace
\* included (only the key of the alias lookup is trimmed); a falsy name, the empty
\* string or None, is returned unchanged
C12_UnmatchedReturnedAsGiven ==
    NormReturned =>
        /\ Unmatched(serviceDependencies, normIn.name) => normOut.name = normIn.name
        /\ normIn.name \in {"", None} => normOut.name = normIn.name

\* an unmatched name with surrounding whitespace was returned, beside services it
\* was compared with
C12_Witness ==
    /\ NormReturned
    /\ serviceDependencies # <<>>
    /\ Unmatched(serviceDependencies, normIn.name)
    /\ Strip(normIn.name) # normIn.name
    /\ normOut.name = normIn.name

(***************************************************************************)
(*                 analyze_service_dependencies (tools.py)                 *)
(***************************************************************************)

\* Python's order of the strings that occur (sorted() of names)
NameRank(n) ==
    CASE n = "Auth-Service" -> 1
      [] n = "all-systems" -> 2
      [] n = "auth service" -> 3
      [] n = "auth-service" -> 4
      [] n = "billing-service" -> 5
      [] n = "legacy-crm" -> 6
      [] n = "user-database" -> 7
      [] OTHER -> 8

\* sorted(list(S))
RECURSIVE SortedList_descending(_)
SortedList_descending(S) ==
    IF S = {} THEN <<>>
    ELSE LET first == CHOOSE n \in S : \A m \in S : NameRank(n) >= NameRank(m)
         IN  <<first>> \o SortedList_descending(S \ {first})

RECURSIVE SortedList(_)
SortedList(S) ==
    IF S = {} THEN <<>>
    ELSE LET first == CHOOSE n \in S : \A m \in S : NameRank(n) <= NameRank(m)
         IN  <<first>> \o SortedList(S \ {first})

\* tools.py 100: the targets, normalized, empty names left out
normalized_target_systems(deps, given_systems) ==
    LET given == SelectSeq(given_systems, LAMBDA s : s # "")
    IN  [i \in 1..Len(given) |-> normalize_service_name(deps, given[i])]

\* tools.py 101
all_target_systems_set(deps, given_systems) ==
    LET norm == normalized_target_systems(deps, given_systems)
    IN  {norm[i] : i \in 1..Len(norm)}

\* tools.py 108 and 116: a name is added when it is neither impacted nor a target
not_yet_recorded_ignoring_impacted(name, impacted, targets) == name \notin targets
not_yet_recorded_ignoring_targets(name, impacted, targets) == name \notin impacted
not_yet_recorded(name, impacted, targets) == name \notin impacted /\ name \notin targets

\* tools.py 112-117: the services whose consumedBy list holds the current system
reverse_matches_own_consumers(deps, system) ==
    {normalize_service_name(deps, c) : c \in
        UNION { {deps[k].consumedBy[j] : j \in 1..Len(deps[k].consumedBy)} :
                k \in {kk \in 1..Len(deps) :
                         normalize_service_name(deps, deps[kk].serviceName) = system} }}
reverse_matches(deps, system) ==
    {normalize_service_name(deps, deps[k].serviceName) :
        k \in {kk \in 1..Len(deps) :
                 \E j \in 1..Len(deps[kk].consumedBy) :
                     normalize_service_name(deps, deps[kk].consumedBy[j]) = system}}

\* tools.py 124
final_impacted_with_targets(impacted, targets) == SortedList(impacted \cup targets)
final_impacted_only_downstream(impacted, targets) == SortedList(impacted \ targets)

\* tools.py 126-128: the count the summary reports, 0 for the fixed sentence
dependency_summary(final) == Len(final)

\* tools.py 130-135
dependency_result(impacted, targets) ==
    [kind |-> "result",
     target_systems_analyzed |-> SortedList(targets),
     impacted_dependencies |-> final_impacted_only_downstream(impacted, targets),
     dependency_summary |-> dependency_summary(final_impacted_only_downstream(impacted, targets)),
     all_involved_services |-> SortedList(targets \cup impacted)]

\* Python's recursion limit, scaled to the graphs explored: find_downstream nests
\* one frame per name it adds, and a deeper nesting raises RecursionError
RecursionLimit == 8

Frame(system_name) == [system |-> system_name, i |-> 1]

\* all_target_systems_set of the running call
Targets == all_target_systems_set(serviceDependencies, target_systems)

\* tools.py 119: the loop over the targets has a target left, or is over; no call
\* of find_downstream is running
TargetLeft(pc, frames, idx) ==
    /\ pc = "loop"
    /\ frames = <<>>
    /\ idx <= Len(normalized_target_systems(serviceDependencies, target_systems))

NoTargetLeft(pc, frames, idx) ==
    /\ pc = "loop"
    /\ frames = <<>>
    /\ idx > Len(normalized_target_systems(serviceDependencies, target_systems))

\* tools.py 105-106: the system of the innermost call is a key of the graph and
\* the loop over its direct dependencies has one left, or not
DependencyLeft(pc, frames) ==
    /\ pc = "loop"
    /\ frames # <<>>
    /\ InGraph(serviceDependencies, frames[Len(frames)].system)
    /\ frames[Len(frames)].i
          <= Len(GraphDeps(serviceDependencies, frames[Len(frames)].system))

NoDependencyLeft(pc, frames) ==
    /\ pc = "loop"
    /\ frames # <<>>
    /\ IF InGraph(serviceDependencies, frames[Len(frames)].system)
       THEN frames[Len(frames)].i
              > Len(GraphDeps(serviceDependencies, frames[Len(frames)].system))
       ELSE TRUE

\* tools.py 119-120: the loop over the targets calls find_downstream; line 104
\* normalizes the name again
CallFindDownstream ==
    /\ TargetLeft(depPc, stack, targetIdx)
    /\ stack' = << Frame(normalize_service_name(serviceDependencies,
                     normalized_target_systems(serviceDependencies, target_systems)[targetIdx])) >>
    /\ targetIdx' = targetIdx + 1
    /\ UNCHANGED <<serviceDependencies, businessEvents, target_systems,
                   impacted_dependencies, depPc, depOut, bizIn, bizOut, aggIn, aggOut, normVars, httpVars, storeVars>>

\* tools.py 106-110: one iteration of the loop over the direct dependencies of the
\* system of the innermost call; a new name is recorded and find_downstream is
\* called on it
VisitDependency ==
    /\ DependencyLeft(depPc, stack)
    /\ LET top == stack[Len(stack)]
       IN  /\ LET normalized_dep ==
                      normalize_service_name(serviceDependencies,
                          GraphDeps(serviceDependencies, top.system)[top.i])
                  advanced == [stack EXCEPT ![Len(stack)].i = top.i + 1]
              IN  IF not_yet_recorded(normalized_dep, impacted_dependencies, Targets)
                  THEN /\ impacted_dependencies' = impacted_dependencies \cup {normalized_dep}
                       /\ IF Len(stack) >= RecursionLimit
                          THEN /\ stack' = <<>>
                               /\ depPc' = "done"
                               /\ depOut' = [kind |-> "RecursionError"]
                          ELSE /\ stack' = Append(advanced,
                                      Frame(normalize_service_name(serviceDependencies,
                                                                   normalized_dep)))
                               /\ UNCHANGED <<depPc, depOut>>
                  ELSE /\ stack' = advanced
                       /\ UNCHANGED <<impacted_dependencies, depPc, depOut>>
    /\ UNCHANGED <<serviceDependencies, businessEvents, target_systems, targetIdx,
                   bizIn, bizOut, aggIn, aggOut, normVars, httpVars, storeVars>>

\* tools.py 112-117, then the return of the innermost call: the services whose
\* consumedBy holds the system are recorded, without a call on them. A system that
\* is no key of the graph returns at once (line 105).
ScanConsumersAndReturn ==
    /\ NoDependencyLeft(depPc, stack)
    /\ LET top == stack[Len(stack)]
       IN  /\ impacted_dependencies' =
                 IF InGraph(serviceDependencies, top.system)
                 THEN impacted_dependencies \cup
                        {n \in reverse_matches(serviceDependencies, top.system) :
                            not_yet_recorded(n, impacted_dependencies, Targets)}
                 ELSE impacted_dependencies
    /\ stack' = SubSeq(stack, 1, Len(stack) - 1)
    /\ UNCHANGED <<serviceDependencies, businessEvents, target_systems, targetIdx,
                   depPc, depOut, bizIn, bizOut, aggIn, aggOut, normVars, httpVars, storeVars>>

\* tools.py 122-135: every target was visited, the result is returned
ReturnDependencies ==
    /\ NoTargetLeft(depPc, stack, targetIdx)
    /\ depOut' = dependency_result(impacted_dependencies, Targets)
    /\ depPc' = "done"
    /\ UNCHANGED <<serviceDependencies, businessEvents, target_systems, targetIdx,
                   impacted_dependencies, stack, bizIn, bizOut, aggIn, aggOut, normVars, httpVars, storeVars>>

(***************************************************************************)
(*       analyze_service_dependencies: the datasets that are explored      *)
(***************************************************************************)

\* the services a dataset may hold, in the order of its entries: a dataset holds
\* the first one, two or three
ServiceOrder == <<"auth-service", "user-database", "billing-service">>

\* the names a directDependencies list may hold; legacy-crm is never a service
\* entry
NodeNames == {"auth-service", "user-database", "billing-service", "legacy-crm"}

\* the names a consumedBy list may hold
ConsumerNames == {"user-database", "billing-service"}

\* the target lists a caller may give: one service under two spellings, a name
\* that is no service, an empty name, and two services in both orders
TargetLists ==
    { <<"auth-service">>, <<"Auth-Service">>, <<"legacy-crm">>, <<"", "billing-service">>,
      <<"auth-service", "user-database">>, <<"user-database", "auth-service">> }

\* a dataset holds at most MaxEdges directDependencies names in all
MaxEdges == 3

\* the lists of distinct names of length at most n
DistinctLists(S, n) ==
    UNION { {l \in [1..m -> S] : \A i, j \in 1..m : i # j => l[i] # l[j]} : m \in 0..n }

\* the consumedBy lists an entry may hold: at most one entry of a dataset names a
\* consumer
ConsumedByLists(mayConsume) ==
    IF mayConsume THEN { <<>> } \cup { <<n>> : n \in ConsumerNames } ELSE { <<>> }

\* the datasets of the first k services with at most e directDependencies names in
\* all
RECURSIVE Datasets(_, _, _)
Datasets(k, e, mayConsume) ==
    IF k = 0 THEN { <<>> }
    ELSE UNION { UNION { { Append(ds, [serviceName |-> ServiceOrder[k],
                                       directDependencies |-> dl, consumedBy |-> cl]) :
                           ds \in Datasets(k - 1, e - Len(dl), mayConsume /\ cl = <<>>) } :
                         cl \in ConsumedByLists(mayConsume) } :
                 dl \in DistinctLists(NodeNames, Min2(e, Cardinality(NodeNames))) }

InitDep ==
    /\ serviceDependencies \in UNION { Datasets(k, MaxEdges, TRUE) :
                                         k \in 1..Len(ServiceOrder) }
    /\ businessEvents = <<>>
    /\ target_systems \in TargetLists
    /\ impacted_dependencies = {}
    /\ stack = <<>>
    /\ targetIdx = 1
    /\ depPc = "loop"
    /\ depOut = NoResult
    /\ bizIn = Idle
    /\ bizOut = Idle
    /\ aggIn = Idle
    /\ aggOut = Idle
    /\ NormIdle
    /\ HttpIdle
    /\ StoreEmpty

NextDep ==
    \/ CallFindDownstream
    \/ VisitDependency
    \/ ScanConsumersAndReturn
    \/ ReturnDependencies

SpecDep == InitDep /\ [][NextDep]_vars

(***************************************************************************)
(*              analyze_service_dependencies: the properties               *)
(***************************************************************************)

\* main.py 420
num_impacted_dependencies(out) == Len(out.impacted_dependencies)

DepReturned == depPc = "done" /\ depOut.kind = "result"

\* the names of a list
Range(l) == {l[i] : i \in 1..Len(l)}

\* the names a system depends on directly, normalized
ForwardEdges(deps, system) ==
    IF InGraph(deps, system)
    THEN {normalize_service_name(deps, d) : d \in Range(GraphDeps(deps, system))}
    ELSE {}

RECURSIVE ForwardClosure(_, _)
ForwardClosure(deps, S) ==
    LET next == S \cup UNION {ForwardEdges(deps, n) : n \in S}
    IN  IF next = S THEN S ELSE ForwardClosure(deps, next)

\* the names reached from the set T through one or more directDependencies edges
ForwardReachable(deps, T) ==
    ForwardClosure(deps, UNION {ForwardEdges(deps, n) : n \in T})

\* a forward cycle lies in the part of the graph the call walks
CycleWalked ==
    \E n \in Targets \cup ForwardReachable(serviceDependencies, Targets) :
        n \in ForwardReachable(serviceDependencies, {n})

\* C1: the impacted_dependencies returned hold no normalized target name and no
\* name twice, for every dataset and every list of targets
C1_NoTargetNoDuplicate ==
    DepReturned =>
        /\ Range(depOut.impacted_dependencies) \cap Targets = {}
        /\ \A i, j \in 1..Len(depOut.impacted_dependencies) :
              i # j => depOut.impacted_dependencies[i] # depOut.impacted_dependencies[j]

\* a call returned two names or more although a target is a direct dependency of a
\* service that was walked
C1_Witness ==
    /\ DepReturned
    /\ Len(depOut.impacted_dependencies) >= 2
    /\ \E n \in Targets \cup Range(depOut.impacted_dependencies) :
          ForwardEdges(serviceDependencies, n) \cap Targets # {}

\* the names of the service entries, and the names the directDependencies mention
ServiceNames(deps) ==
    {normalize_service_name(deps, deps[k].serviceName) : k \in 1..Len(deps)}

DependencyNames(deps) ==
    {normalize_service_name(deps, d) :
        d \in UNION {Range(deps[k].directDependencies) : k \in 1..Len(deps)}}

\* the work a call of find_downstream has left: its return and the direct
\* dependencies it has not looked at yet
FrameWork(f) ==
    1 + (IF InGraph(serviceDependencies, f.system)
         THEN Len(GraphDeps(serviceDependencies, f.system)) + 1 - f.i
         ELSE 0)

RECURSIVE StackWork(_)
StackWork(frames) ==
    IF frames = <<>> THEN 0
    ELSE FrameWork(frames[Len(frames)]) + StackWork(SubSeq(frames, 1, Len(frames) - 1))

\* the most work a new call of find_downstream brings, and one more
CallWeight ==
    LET lens == {Len(serviceDependencies[k].directDependencies) :
                    k \in 1..Len(serviceDependencies)}
    IN  2 + (CHOOSE n \in lens : \A m \in lens : m <= n)

\* the names a call can still record, and the targets still to be visited
Unrecorded(impacted) == Cardinality(NodeNames \ (impacted \cup Targets))

TargetsLeft(idx) ==
    Len(normalized_target_systems(serviceDependencies, target_systems)) + 1 - idx

\* what is left to do before analyze_service_dependencies has returned: every
\* target left and every name still to be recorded may bring one call
DepMeasure(pc, idx, impacted, frames) ==
    IF pc = "done" THEN 0
    ELSE 1 + CallWeight * (TargetsLeft(idx) + Unrecorded(impacted)) + StackWork(frames)

\* C2: analyze_service_dependencies terminates on every dataset, forward cycles
\* included: every step of the call lessens the natural number DepMeasure, a call
\* that has not returned meets the condition of one of its four steps, and the call
\* ends by returning its result, not in a RecursionError
C2_Terminates ==
    [][ /\ DepMeasure(depPc', targetIdx', impacted_dependencies', stack')
            < DepMeasure(depPc, targetIdx, impacted_dependencies, stack)
        /\ DepMeasure(depPc', targetIdx', impacted_dependencies', stack') >= 0
        /\ depPc' = "loop" =>
              \/ TargetLeft(depPc', stack', targetIdx')
              \/ DependencyLeft(depPc', stack')
              \/ NoDependencyLeft(depPc', stack')
              \/ NoTargetLeft(depPc', stack', targetIdx')
        /\ depPc' = "done" => depOut'.kind = "result" ]_vars

\* a call returned although a forward cycle lies in the part of the graph it walked
C2_Witness == DepReturned /\ CycleWalked

\* C3: the impacted_dependencies hold every name that is reached from a target
\* through one or more directDependencies edges and is no target
C3_ForwardClosureCovered ==
    DepReturned =>
        (ForwardReachable(serviceDependencies, Targets) \ Targets)
            \subseteq Range(depOut.impacted_dependencies)

\* the dataset of the example: auth-service depends on user-database, the entry of
\* user-database names billing-service in consumedBy, no other edge
IsEntry(e, name, dependencies, consumers) ==
    /\ e.serviceName = name
    /\ e.directDependencies = dependencies
    /\ e.consumedBy = consumers

ExampleDataset ==
    /\ Len(serviceDependencies) \in {2, 3}
    /\ IsEntry(serviceDependencies[1], "auth-service", <<"user-database">>, <<>>)
    /\ IsEntry(serviceDependencies[2], "user-database", <<>>, <<"billing-service">>)
    /\ Len(serviceDependencies) = 3 =>
          IsEntry(serviceDependencies[3], "billing-service", <<>>, <<>>)

\* the same dataset with the consumedBy name on the other entry: the entry of
\* billing-service names user-database in consumedBy
ExampleDatasetConsumerEntry ==
    /\ Len(serviceDependencies) = 3
    /\ IsEntry(serviceDependencies[1], "auth-service", <<"user-database">>, <<>>)
    /\ IsEntry(serviceDependencies[2], "user-database", <<>>, <<>>)
    /\ IsEntry(serviceDependencies[3], "billing-service", <<>>, <<"user-database">>)

\* C4 as stated: on the dataset of the example, the call on auth-service returns
\* billing-service and user-database, a count of 2
C4_ExampleReturnsBoth ==
    (DepReturned /\ ExampleDataset /\ target_systems = <<"auth-service">>) =>
        /\ depOut.impacted_dependencies = <<"billing-service", "user-database">>
        /\ num_impacted_dependencies(depOut) = 2

\* C4: on the dataset of the example the call on auth-service returns user-database
\* alone, a count of 1; it returns billing-service and user-database, a count of 2,
\* when it is the entry of billing-service that names user-database in consumedBy
C4_ExampleByConsumerEntry ==
    (DepReturned /\ target_systems = <<"auth-service">>) =>
        /\ ExampleDataset =>
              /\ depOut.impacted_dependencies = <<"user-database">>
              /\ num_impacted_dependencies(depOut) = 1
        /\ ExampleDatasetConsumerEntry =>
              /\ depOut.impacted_dependencies = <<"billing-service", "user-database">>
              /\ num_impacted_dependencies(depOut) = 2

C4_Witness ==
    /\ DepReturned
    /\ target_systems = <<"auth-service">>
    /\ ExampleDatasetConsumerEntry
    /\ num_impacted_dependencies(depOut) = 2

\* C5 as stated: the count of impacted names never exceeds the count of service
\* entries
C5_BoundedByServiceCount ==
    DepReturned =>
        num_impacted_dependencies(depOut) <= Cardinality(ServiceNames(serviceDependencies))

\* C5: the count of impacted names never exceeds the count of distinct names that
\* are a service entry or are mentioned in a directDependencies list; it never
\* exceeds the count of service entries when every directDependencies name is a
\* service entry
C5_BoundedByMentionedNames ==
    DepReturned =>
        /\ Range(depOut.impacted_dependencies) \subseteq
              (ServiceNames(serviceDependencies) \cup DependencyNames(serviceDependencies))
        /\ num_impacted_dependencies(depOut) <=
              Cardinality(ServiceNames(serviceDependencies)
                            \cup DependencyNames(serviceDependencies))
        /\ DependencyNames(serviceDependencies) \subseteq ServiceNames(serviceDependencies)
              => num_impacted_dependencies(depOut)
                    <= Cardinality(ServiceNames(serviceDependencies))

\* a call returned more names than there are service entries
C5_Witness ==
    /\ DepReturned
    /\ num_impacted_dependencies(depOut) > Cardinality(ServiceNames(serviceDependencies))

(***************************************************************************)
(*                 datetime, as assess_business_impact uses it             *)
(***************************************************************************)

DAYS_IN_MONTH == <<31, 28, 31, 30, 31, 30, 31, 31, 30, 31, 30, 31>>

IsLeap(y) == y % 4 = 0 /\ (y % 100 # 0 \/ y % 400 = 0)

DaysInMonth(y, m) == IF m = 2 /\ IsLeap(y) THEN 29 ELSE DAYS_IN_MONTH[m]

DaysBeforeYear(y) == (y - 1) * 365 + (y - 1) \div 4 - (y - 1) \div 100 + (y - 1) \div 400

RECURSIVE DaysBeforeMonth(_, _)
DaysBeforeMonth(y, m) ==
    IF m = 1 THEN 0 ELSE DaysBeforeMonth(y, m - 1) + DaysInMonth(y, m - 1)

\* date.toordinal()
ToOrdinal(d) == DaysBeforeYear(d.year) + DaysBeforeMonth(d.year, d.month) + d.day

\* date.fromordinal(n), for the years that occur
Years == 2022..2025

FromOrdinal(n) ==
    LET y == CHOOSE yy \in Years : DaysBeforeYear(yy) < n /\ n <= DaysBeforeYear(yy + 1)
        m == CHOOSE mm \in 1..12 :
                 /\ DaysBeforeYear(y) + DaysBeforeMonth(y, mm) < n
                 /\ n <= DaysBeforeYear(y) + DaysBeforeMonth(y, mm) + DaysInMonth(y, mm)
    IN  [year |-> y, month |-> m, day |-> n - DaysBeforeYear(y) - DaysBeforeMonth(y, m)]

SECONDS_PER_DAY == 24 * 3600

\* datetime + timedelta(days, seconds); a datetime is [date, sod] (second of day)
AddTimedelta(dt, days, seconds) ==
    LET total == dt.sod + seconds
    IN  [date |-> FromOrdinal(ToOrdinal(dt.date) + days + (total \div SECONDS_PER_DAY)),
         sod |-> total % SECONDS_PER_DAY]

\* datetime.fromisoformat of a date string: midnight of that day
Midnight(d) == [date |-> d, sod |-> 0]

\* dt1 <= dt2
DtLE(a, b) ==
    \/ ToOrdinal(a.date) < ToOrdinal(b.date)
    \/ (ToOrdinal(a.date) = ToOrdinal(b.date) /\ a.sod <= b.sod)

\* datetime.isoweekday(): Monday 1 .. Sunday 7
isoweekday(dt) ==
    LET r == ToOrdinal(dt.date) % 7 IN IF r = 0 THEN 7 ELSE r

hour(dt) == dt.sod \div 3600

\* strftime("%b %d"): month name and day, the year is not written
strftime_b_d(d) == [month |-> d.month, day |-> d.day]

\* datetime.strptime(s, "%b %d"): the year defaults to 1900; a day the month does
\* not have in 1900 raises ValueError
strptime_raises(s) == s.day > DaysInMonth(1900, s.month)
strptime_b_d(s) == [year |-> 1900, month |-> s.month, day |-> s.day]

(***************************************************************************)
(*                   assess_business_impact (tools.py)                     *)
(***************************************************************************)

\* tools.py 153-160
impact_match(deps, event, involved) ==
    IF \E i \in 1..Len(event.impactedSystems) : event.impactedSystems[i] = "all-systems"
    THEN TRUE
    ELSE \E s \in 1..Len(involved) : \E i \in 1..Len(event.impactedSystems) :
            Lower(involved[s]) = Lower(normalize_service_name(deps, event.impactedSystems[i]))

\* tools.py 149-152. With _until_midnight the window would end when the end date
\* begins.
event_end_dt(event) == AddTimedelta(Midnight(event.endDate), 1, -1)
in_window_until_midnight(event, proposed_dt) ==
    DtLE(Midnight(event.startDate), proposed_dt)
        /\ DtLE(proposed_dt, Midnight(event.endDate))
in_window(event, proposed_dt) ==
    DtLE(Midnight(event.startDate), proposed_dt) /\ DtLE(proposed_dt, event_end_dt(event))

\* tools.py 166-171. With _flat every criticality would add 1.
criticality_score_flat(level) == 1
criticality_score(level) ==
    CASE level = "Critical" -> 5
      [] level = "High" -> 3
      [] level = "Medium" -> 1
      [] OTHER -> 0

\* tools.py 173-174
blackout_score_none(event) == 0
blackout_score(event) == IF event.blackoutWindow THEN 2 ELSE 0

\* tools.py 148-174: current_impact_events and overall_business_risk_score after
\* the first i events
RECURSIVE scan_events(_, _, _, _, _)
scan_events(deps, events, proposed_dt, involved, i) ==
    IF i = 0 THEN [events |-> <<>>, score |-> 0]
    ELSE LET acc == scan_events(deps, events, proposed_dt, involved, i - 1)
             e == events[i]
         IN  IF in_window(e, proposed_dt) /\ impact_match(deps, e, involved)
             THEN [events |-> Append(acc.events,
                                     [date |-> strftime_b_d(proposed_dt.date),
                                      event |-> e.eventName, level |-> e.criticality]),
                   score |-> acc.score + criticality_score(e.criticality) + blackout_score(e)]
             ELSE acc

\* tools.py 176
is_weekday_business_hours(dt) == isoweekday(dt) <= 5 /\ hour(dt) >= 9 /\ hour(dt) <= 17

\* tools.py 177
BUSINESS_HOURS_EVENTS ==
    {"Peak Hours", "Monthly Payroll Processing", "Black Friday Sale Preparation"}

\* tools.py 176-179
add_peak_hours(acc, proposed_dt) ==
    IF /\ is_weekday_business_hours(proposed_dt)
       /\ ~ \E i \in 1..Len(acc.events) : acc.events[i].event \in BUSINESS_HOURS_EVENTS
    THEN [events |-> Append(acc.events, [date |-> strftime_b_d(proposed_dt.date),
                                         event |-> "Peak Hours", level |-> "Peak"]),
          score |-> acc.score + 1]
    ELSE acc

AnyLevel(evs, level) == \E i \in 1..Len(evs) : evs[i].level = level

\* tools.py 181-191. With _any_event every recorded event would make the level
\* at least "Medium".
business_impact_final_level_any_event(evs) ==
    IF AnyLevel(evs, "Critical") THEN "High"
    ELSE IF evs # <<>> THEN "Medium"
    ELSE "Low"
business_impact_final_level(evs) ==
    IF AnyLevel(evs, "Critical") THEN "High"
    ELSE IF AnyLevel(evs, "High") THEN "Medium"
    ELSE IF AnyLevel(evs, "Medium") THEN "Medium"
    ELSE "Low"

\* tools.py 200-204
proposed_time_level(final_level, evs) ==
    IF final_level = "High" \/ AnyLevel(evs, "Critical") THEN "Conflict"
    ELSE IF final_level = "Medium" \/ AnyLevel(evs, "Peak") THEN "Peak"
    ELSE "Safe"

\* A timeline item is [date, event, level]: date is the "%b %d" text, event the
\* label, kept as the sequence of names that ", " joins.
Item(date, name, level) == [date |-> date, event |-> <<name>>, level |-> level]

\* tools.py 208-216: an impact event becomes an item unless it is named
\* "Proposed Change"
RECURSIVE event_items(_, _)
event_items(evs, i) ==
    IF i = 0 THEN <<>>
    ELSE IF evs[i].event = "Proposed Change" THEN event_items(evs, i - 1)
    ELSE Append(event_items(evs, i - 1), Item(evs[i].date, evs[i].event, evs[i].level))

\* tools.py 193-216
business_impact_timeline_display(proposed_dt, evs, final_level) ==
    IF evs = <<>>
    THEN << Item(strftime_b_d(AddTimedelta(proposed_dt, -1, 0).date), "Safe Window", "Safe"),
            Item(strftime_b_d(proposed_dt.date), "Proposed Change", "Safe"),
            Item(strftime_b_d(AddTimedelta(proposed_dt, 1, 0).date), "Safe Window", "Safe") >>
    ELSE << Item(strftime_b_d(proposed_dt.date), "Proposed Change",
                 proposed_time_level(final_level, evs)) >>
         \o event_items(evs, Len(evs))

\* tools.py 230
level_priority(level) ==
    CASE level = "Critical" -> 6
      [] level = "High" -> 5
      [] level = "Medium" -> 4
      [] level = "Peak" -> 3
      [] level = "Conflict" -> 2
      [] level = "Safe" -> 1
      [] OTHER -> 0

\* tools.py 220-223
date_key(item, proposed_dt) ==
    IF strptime_raises(item.date) THEN proposed_dt.date ELSE strptime_b_d(item.date)

\* a in b on the event names that occur: none is a proper part of another, and
\* none holds the separator ", "
IsSubstring(a, b) == a = b

\* tools.py 234: item['event'] not in the label kept for the day. With _never
\* the test would find no name in any label.
label_contains_never(label, name) == FALSE
label_contains(label, name) == \E k \in 1..Len(label) : IsSubstring(name, label[k])

\* tools.py 225-235: one item into unique_timeline_items, a dict in insertion order,
\* kept as a sequence of [key, item]
merge_item_keep_first(unique, item, key) ==
    IF \E j \in 1..Len(unique) : unique[j].key = key
    THEN unique
    ELSE Append(unique, [key |-> key, item |-> item])
merge_item(unique, item, key) ==
    IF ~ \E j \in 1..Len(unique) : unique[j].key = key
    THEN Append(unique, [key |-> key, item |-> item])
    ELSE LET j == CHOOSE jj \in 1..Len(unique) : unique[jj].key = key
             existing == unique[j].item
         IN  IF level_priority(item.level) > level_priority(existing.level)
             THEN [unique EXCEPT ![j].item = item]
             ELSE IF level_priority(item.level) = level_priority(existing.level)
                     /\ ~ label_contains(existing.event, item.event[1])
             THEN [unique EXCEPT ![j].item.event = existing.event \o item.event]
             ELSE unique

\* tools.py 218-235
RECURSIVE unique_timeline_items(_, _, _)
unique_timeline_items(display, proposed_dt, i) ==
    IF i = 0 THEN <<>>
    ELSE merge_item(unique_timeline_items(display, proposed_dt, i - 1),
                    display[i], date_key(display[i], proposed_dt))

\* sorted(items, key=strptime(date, "%b %d")): stable, by the day in 1900
sort_key(item) == ToOrdinal(strptime_b_d(item.date))

RECURSIVE insert_sorted(_, _)
insert_sorted(sorted, item) ==
    IF sorted = <<>> THEN <<item>>
    ELSE IF sort_key(sorted[Len(sorted)]) <= sort_key(item) THEN Append(sorted, item)
    ELSE Append(insert_sorted(SubSeq(sorted, 1, Len(sorted) - 1), item), sorted[Len(sorted)])

RECURSIVE sorted_by_date(_, _)
sorted_by_date(items, i) ==
    IF i = 0 THEN <<>> ELSE insert_sorted(sorted_by_date(items, i - 1), items[i])

\* tools.py 138-246; the call raises ValueError when line 237 parses "Feb 29"
assess_business_impact(deps, events, proposed_dt, all_involved_services) ==
    LET given == SelectSeq(all_involved_services, LAMBDA s : s # "")
        involved == [i \in 1..Len(given) |-> normalize_service_name(deps, given[i])]
        scanned == scan_events(deps, events, proposed_dt, involved, Len(events))
        acc == add_peak_hours(scanned, proposed_dt)
        final_level == business_impact_final_level(acc.events)
        display == business_impact_timeline_display(proposed_dt, acc.events, final_level)
        unique == unique_timeline_items(display, proposed_dt, Len(display))
        values == [j \in 1..Len(unique) |-> unique[j].item]
    IN  IF \E j \in 1..Len(values) : strptime_raises(values[j].date)
        THEN [kind |-> "ValueError"]
        ELSE [kind |-> "result",
              business_impact_level |-> final_level,
              overall_business_risk_score |-> acc.score,
              business_impact_timeline |-> sorted_by_date(values, Len(values)),
              business_summary |->
                  [level |-> final_level,
                   conflicts |-> [j \in 1..Len(acc.events) |-> acc.events[j].event]]]

(***************************************************************************)
(*          assess_business_impact: the calls that are explored            *)
(***************************************************************************)

Date(y, m, d) == [year |-> y, month |-> m, day |-> d]

\* the directory the calendar is evaluated against
CalendarServices ==
    << [serviceName |-> "auth-service", directDependencies |-> <<"user-database">>,
        consumedBy |-> <<>>],
       [serviceName |-> "user-database", directDependencies |-> <<>>,
        consumedBy |-> <<"auth-service">>],
       [serviceName |-> "billing-service", directDependencies |-> <<"user-database">>,
        consumedBy |-> <<>>] >>

\* a proposed instant: a day and the seconds since its midnight
At(date, h, mi, sec) == [date |-> date, sod |-> h * 3600 + mi * 60 + sec]

\* proposed instants: both sides of a year end, the days around 29 February 2024,
\* a Wednesday, a Saturday and a Sunday in June 2024, at the ends of the days and
\* at the ends of the business hours
ProposedInstants ==
    { At(Date(2023, 12, 31), 0, 0, 0), At(Date(2024, 1, 1), 0, 0, 0),
      At(Date(2024, 1, 1), 9, 0, 0),
      At(Date(2024, 2, 28), 9, 0, 0), At(Date(2024, 2, 28), 18, 0, 0),
      At(Date(2024, 2, 29), 9, 0, 0), At(Date(2024, 2, 29), 18, 0, 0),
      At(Date(2024, 3, 1), 9, 0, 0), At(Date(2024, 3, 1), 17, 59, 59),
      At(Date(2024, 3, 1), 23, 59, 59),
      At(Date(2024, 6, 12), 0, 0, 0), At(Date(2024, 6, 12), 9, 0, 0),
      At(Date(2024, 6, 12), 17, 59, 59), At(Date(2024, 6, 12), 18, 0, 0),
      At(Date(2024, 6, 12), 23, 59, 59),
      At(Date(2024, 6, 15), 9, 0, 0), At(Date(2024, 6, 15), 23, 59, 59),
      At(Date(2024, 6, 16), 0, 0, 0), At(Date(2024, 6, 16), 9, 0, 0) }

InvolvedChoices == { <<>>, <<"auth service">>, <<"billing-service", "legacy-crm">> }

Criticalities == {"Low", "Medium", "High", "Critical"}

\* what an event is about: its name, its systems and its days
EventShapes ==
    { [eventName |-> "Quarter End Close", impactedSystems |-> <<"all-systems">>,
       startDate |-> Date(2024, 2, 29), endDate |-> Date(2024, 6, 15)],
      [eventName |-> "Monthly Payroll Processing", impactedSystems |-> <<"all-systems">>,
       startDate |-> Date(2024, 2, 28), endDate |-> Date(2024, 3, 1)],
      [eventName |-> "Quarter End Close", impactedSystems |-> <<"Auth-Service", "user-database">>,
       startDate |-> Date(2023, 12, 31), endDate |-> Date(2024, 6, 12)] }

Event(shape, criticality, blackout) ==
    [eventName |-> shape.eventName, impactedSystems |-> shape.impactedSystems,
     startDate |-> shape.startDate, endDate |-> shape.endDate,
     criticality |-> criticality, blackoutWindow |-> blackout]

Events == {Event(s, c, b) : s \in EventShapes, c \in Criticalities, b \in BOOLEAN}

\* the calendar holds at most MaxEvents events, no two of the same name for the
\* same systems
MaxEvents == 2

EventLists ==
    UNION { {es \in [1..n -> Events] :
                \A i, j \in 1..n :
                    i # j => <<es[i].eventName, es[i].impactedSystems>>
                                # <<es[j].eventName, es[j].impactedSystems>>}
            : n \in 0..MaxEvents }

InitBiz ==
    /\ serviceDependencies = CalendarServices
    /\ businessEvents \in EventLists
    /\ bizIn \in [proposed_dt : ProposedInstants,
                  all_involved_services : InvolvedChoices]
    /\ bizOut = NoResult
    /\ aggIn = Idle
    /\ aggOut = Idle
    /\ DepIdle
    /\ NormIdle
    /\ HttpIdle
    /\ StoreEmpty

\* one call of assess_business_impact, tools.py 138-246
AssessBusinessImpact ==
    /\ bizOut = NoResult
    /\ bizOut' = assess_business_impact(serviceDependencies, businessEvents,
                                         bizIn.proposed_dt, bizIn.all_involved_services)
    /\ UNCHANGED <<serviceDependencies, businessEvents, bizIn, aggIn,
                   aggOut, depVars, normVars, httpVars, storeVars>>

NextBiz == AssessBusinessImpact

SpecBiz == InitBiz /\ [][NextBiz]_vars

(***************************************************************************)
(*                 Properties of assess_business_impact                    *)
(***************************************************************************)

BizDone == bizOut # NoResult /\ bizOut # Idle
BizReturned == BizDone /\ bizOut.kind = "result"

\* the involved services as the call normalizes them
BizInvolved ==
    LET given == SelectSeq(bizIn.all_involved_services, LAMBDA s : s # "")
    IN  [i \in 1..Len(given) |-> normalize_service_name(serviceDependencies, given[i])]

\* the positions of the business events that match the proposed instant
MatchingEvents ==
    LET involved == BizInvolved
    IN  {i \in 1..Len(businessEvents) :
            /\ in_window(businessEvents[i], bizIn.proposed_dt)
            /\ impact_match(serviceDependencies, businessEvents[i], involved)}

\* Monday to Friday, 09:00:00 through 17:59:59
InBusinessHours ==
    /\ ToOrdinal(bizIn.proposed_dt.date) % 7 \in 1..5
    /\ bizIn.proposed_dt.sod >= 9 * 3600
    /\ bizIn.proposed_dt.sod < 18 * 3600

MonthDay(d) == [month |-> d.month, day |-> d.day]
DayBefore(d) == FromOrdinal(ToOrdinal(d) - 1)
DayAfter(d) == FromOrdinal(ToOrdinal(d) + 1)
IsFeb29(d) == d.month = 2 /\ d.day = 29

\* C6: with no matching business event and an instant outside weekday business
\* hours, on any calendar day, the call returns level "Low", riskScore 0 and the
\* three entries Safe Window (day before), Proposed Change (proposed day), Safe
\* Window (day after), in this order, all of level "Safe".
C6_SafeTimelineOnAnyDay ==
    (BizDone /\ MatchingEvents = {} /\ ~ InBusinessHours) =>
        /\ bizOut.kind = "result"
        /\ bizOut.business_impact_level = "Low"
        /\ bizOut.overall_business_risk_score = 0
        /\ bizOut.business_impact_timeline =
              << [date |-> MonthDay(DayBefore(bizIn.proposed_dt.date)),
                  event |-> <<"Safe Window">>, level |-> "Safe"],
                 [date |-> MonthDay(bizIn.proposed_dt.date),
                  event |-> <<"Proposed Change">>, level |-> "Safe"],
                 [date |-> MonthDay(DayAfter(bizIn.proposed_dt.date)),
                  event |-> <<"Safe Window">>, level |-> "Safe"] >>

\* one Medium-criticality event matches and the Peak Hours rule fires: the entries
\* of the proposed day are Proposed Change, the Medium event and Peak Hours
MediumPlusPeak ==
    /\ BizDone
    /\ Cardinality(MatchingEvents) = 1
    /\ \A i \in MatchingEvents :
          /\ businessEvents[i].criticality = "Medium"
          /\ businessEvents[i].eventName \notin BUSINESS_HOURS_EVENTS
    /\ InBusinessHours

TheMatchingEvent == businessEvents[CHOOSE i \in MatchingEvents : TRUE]

\* what the merge step leaves, in insertion order (tools.py 218-235)
MergedTimeline ==
    LET acc == add_peak_hours(
                   scan_events(serviceDependencies, businessEvents, bizIn.proposed_dt,
                               BizInvolved, Len(businessEvents)),
                   bizIn.proposed_dt)
        display == business_impact_timeline_display(
                       bizIn.proposed_dt, acc.events, business_impact_final_level(acc.events))
        unique == unique_timeline_items(display, bizIn.proposed_dt, Len(display))
    IN  [j \in 1..Len(unique) |-> unique[j].item]

\* C7, as stated: a Medium entry and a Peak entry of the same day merge into one
\* entry of level "Medium" whose label contains both event names (stated here of
\* the timeline a call returns).
C7_LabelHoldsBothNames ==
    (MediumPlusPeak /\ bizOut.kind = "result") =>
        /\ Len(bizOut.business_impact_timeline) = 1
        /\ bizOut.business_impact_timeline[1].level = "Medium"
        /\ label_contains(bizOut.business_impact_timeline[1].event,
                          TheMatchingEvent.eventName)
        /\ label_contains(bizOut.business_impact_timeline[1].event, "Peak Hours")

\* C7, amended: a Medium entry and a Peak entry of the same day merge into one
\* entry of level "Medium" whose label is the Medium event's name alone; the name
\* of the lower-priority Peak entry is dropped (names are joined only between
\* entries of equal priority). The returned timeline is that entry.
C7_HigherPriorityEntryKept ==
    MediumPlusPeak =>
        /\ MergedTimeline =
              << [date |-> MonthDay(bizIn.proposed_dt.date),
                  event |-> <<TheMatchingEvent.eventName>>, level |-> "Medium"] >>
        /\ (bizOut.kind = "result" => bizOut.business_impact_timeline = MergedTimeline)

\* a returned timeline made of the Medium event's entry after Peak Hours was recorded
C7_Witness ==
    /\ MediumPlusPeak
    /\ bizOut.kind = "result"
    /\ bizOut.business_summary.conflicts = <<TheMatchingEvent.eventName, "Peak Hours">>
    /\ Len(bizOut.business_impact_timeline) = 1
    /\ bizOut.business_impact_timeline[1].level = "Medium"

\* exactly one event matches, and it is Critical, a blackout window and has
\* impactedSystems ["all-systems"]
SingleCriticalBlackout ==
    /\ BizDone
    /\ Cardinality(MatchingEvents) = 1
    /\ \A i \in MatchingEvents :
          /\ businessEvents[i].criticality = "Critical"
          /\ businessEvents[i].blackoutWindow
          /\ businessEvents[i].impactedSystems = <<"all-systems">>

\* C8, as stated: inside a single Critical blackout event on all-systems the call
\* returns riskScore exactly 7 and level "High", whatever the weekday and the time
\* (stated here of the calls that return).
C8_ScoreSevenAtAnyTime ==
    (SingleCriticalBlackout /\ bizOut.kind = "result") =>
        /\ bizOut.overall_business_risk_score = 7
        /\ bizOut.business_impact_level = "High"

\* C8, amended: inside a single Critical blackout event on all-systems the level
\* is "High" and riskScore is 7 outside weekday business hours (Monday to Friday,
\* hour 9 to 17) and when the event is named Peak Hours, Monthly Payroll
\* Processing or Black Friday Sale Preparation; otherwise the Peak Hours rule adds
\* 1 and riskScore is 8. On 29 February the call raises ValueError instead of
\* returning.
C8_ScoreSevenOrEight ==
    SingleCriticalBlackout =>
        IF IsFeb29(bizIn.proposed_dt.date)
        THEN bizOut.kind = "ValueError"
        ELSE /\ bizOut.kind = "result"
             /\ bizOut.business_impact_level = "High"
             /\ bizOut.overall_business_risk_score =
                   IF InBusinessHours /\ TheMatchingEvent.eventName \notin
                        {"Peak Hours", "Monthly Payroll Processing",
                         "Black Friday Sale Preparation"}
                   THEN 8 ELSE 7

\* the Critical blackout event met in weekday business hours: riskScore 8
C8_Witness ==
    /\ SingleCriticalBlackout
    /\ bizOut.kind = "result"
    /\ bizOut.overall_business_risk_score = 8
    /\ bizOut.business_impact_level = "High"

(***************************************************************************)
(*                     Score aggregation (main.py)                         *)
(***************************************************************************)

\* fixed-point ticks per 1.0
Unit == 3 * 100

\* technical_risk_score is round(min(base * multiplier, 10.0), 1): a number of
\* tenths, at most 10.0
MaxTechTenths == 100

\* bounds of the aggregated inputs
MaxDepCount == 14
MaxBusinessScore == 14

Priorities == {"None", "Medium", "High", "Critical"}

\* config.RISK_WEIGHTS, in tenths
RISK_WEIGHTS == [technical |-> 4, dependency |-> 3, business |-> 3]

\* config.PRIORITY_ADJUSTMENTS, in ticks (1.5 and 3.0)
PRIORITY_ADJUSTMENTS_swapped == [High |-> 3 * Unit, Critical |-> (15 * Unit) \div 10]
PRIORITY_ADJUSTMENTS == [High |-> (15 * Unit) \div 10, Critical |-> 3 * Unit]

\* config.MAX_CALCULATED_RISK, in ticks (15.0)
MAX_CALCULATED_RISK == 15 * Unit

\* Python's round(x, 1) of num/den >= 0: the nearest tenth, an exact tie going to
\* the even tenth. The result counts tenths.
Round1(num, den) ==
    LET q == (10 * num) \div den
        r == (10 * num) % den
    IN  IF 2 * r > den THEN q + 1
        ELSE IF 2 * r < den THEN q
        ELSE IF q % 2 = 0 THEN q ELSE q + 1

\* calculated_risk_value, main.py 423-431, in ticks
calculated_risk_value(in) ==
    LET weighted == ( (in.technical * (Unit \div 10)) * RISK_WEIGHTS.technical
                    + (in.dep * Unit) * RISK_WEIGHTS.dependency
                    + (in.business * Unit) * RISK_WEIGHTS.business ) \div 10
    IN  IF in.priority \in DOMAIN PRIORITY_ADJUSTMENTS
        THEN weighted + PRIORITY_ADJUSTMENTS[in.priority]
        ELSE weighted

\* normalized_risk, main.py 433, in ticks
normalized_risk_unclamped(raw) == (raw * 10 * Unit) \div MAX_CALCULATED_RISK
normalized_risk(raw) ==
    Max2(1 * Unit, Min2(10 * Unit, (raw * 10 * Unit) \div MAX_CALCULATED_RISK))

\* credit_score, main.py 434, in tenths
credit_score(normalized) ==
    Round1(Max2(1 * Unit, Min2(10 * Unit, 10 * Unit - normalized + 1 * Unit)), Unit)

\* risk_level, main.py 435 (credit in tenths)
risk_level(credit) ==
    IF credit <= 35 THEN "HIGH" ELSE IF credit <= 70 THEN "MEDIUM" ELSE "LOW"

AggInputs ==
    [technical : 0..MaxTechTenths, dep : 0..MaxDepCount,
     business : 0..MaxBusinessScore, priority : Priorities]

InitAgg ==
    /\ aggIn \in AggInputs
    /\ aggOut = NoResult
    /\ serviceDependencies = <<>>
    /\ businessEvents = <<>>
    /\ bizIn = Idle
    /\ bizOut = Idle
    /\ DepIdle
    /\ NormIdle
    /\ HttpIdle
    /\ StoreEmpty

\* main.py 419-435: the arithmetic of assess_risk on the three scores
Aggregate ==
    /\ aggOut = NoResult
    /\ LET raw == calculated_risk_value(aggIn)
           normalized == normalized_risk(raw)
           credit == credit_score(normalized)
       IN  aggOut' = [kind |-> "result", raw |-> raw, normalized |-> normalized,
                      risk_score |-> credit, risk_level |-> risk_level(credit)]
    /\ UNCHANGED <<aggIn, serviceDependencies, businessEvents, bizIn,
                   bizOut, depVars, normVars, httpVars, storeVars>>

NextAgg == Aggregate

SpecAgg == InitAgg /\ [][NextAgg]_vars

(***************************************************************************)
(*                  Properties of the score aggregation                    *)
(***************************************************************************)

\* The raw value as the specification writes it, in hundredths:
\* 0.4*technical + 0.3*dependencyCount + 0.3*business, +1.5 for priority High,
\* +3.0 for priority Critical, nothing for any other priority.
StatedRawHundredths(in) ==
    4 * in.technical + 30 * in.dep + 30 * in.business
    + (IF in.priority = "High" THEN 150 ELSE IF in.priority = "Critical" THEN 300 ELSE 0)

\* clamp(11 - clamp(raw/15*10, 1, 10), 1, 10), counted in 1/150
StatedSafety150(in) ==
    LET n == Max2(150, Min2(1500, StatedRawHundredths(in)))
    IN  Max2(150, Min2(1500, 1650 - n))

Abs(x) == IF x < 0 THEN -x ELSE x

AggDone == aggOut.kind = "result"

\* C9: the aggregation clamps at both ends. A raw value of 15.0 or more gives
\* normalized exactly 10.0, safety score exactly 1.0 and HIGH; the input
\* (0, 0, 0, "Medium") gives normalized 1.0, safety score 10.0 and LOW; and both
\* the normalized score and the safety score always lie in [1.0, 10.0].
C9_ClampsAtBothEnds ==
    AggDone =>
        /\ (StatedRawHundredths(aggIn) >= 1500 =>
                /\ aggOut.normalized = 10 * Unit
                /\ aggOut.risk_score = 10
                /\ aggOut.risk_level = "HIGH")
        /\ (aggIn = [technical |-> 0, dep |-> 0, business |-> 0, priority |-> "Medium"] =>
                /\ aggOut.normalized = 1 * Unit
                /\ aggOut.risk_score = 100
                /\ aggOut.risk_level = "LOW")
        /\ aggOut.normalized >= 1 * Unit /\ aggOut.normalized <= 10 * Unit
        /\ aggOut.risk_score >= 10 /\ aggOut.risk_score <= 100

\* an aggregation whose raw value lies above the ceiling, and so is clamped
C9_Witness ==
    /\ AggDone
    /\ StatedRawHundredths(aggIn) > 1500
    /\ aggOut.risk_level = "HIGH"

\* C10: risk_score is round(clamp(11 - clamp(raw/15*10, 1, 10), 1, 10), 1) for the
\* stated raw value (priority adjustment +1.5 for High, +3.0 for Critical, none
\* otherwise), and risk_level is HIGH exactly when that score <= 3.5, MEDIUM
\* exactly when 3.5 < score <= 7.0 and LOW otherwise.
C10_ScoreAndLevel ==
    AggDone =>
        /\ 2 * Abs(15 * aggOut.risk_score - StatedSafety150(aggIn)) <= 15
        /\ (aggOut.risk_level = "HIGH") <=> (aggOut.risk_score <= 35)
        /\ (aggOut.risk_level = "MEDIUM") <=>
               (aggOut.risk_score > 35 /\ aggOut.risk_score <= 70)
        /\ (aggOut.risk_level = "LOW") <=> (aggOut.risk_score > 70)

\* a Critical-priority aggregation landing exactly on the HIGH boundary 3.5
C10_Witness ==
    /\ AggDone
    /\ aggIn.priority = "Critical"
    /\ aggOut.risk_score = 35
    /\ aggOut.risk_level = "HIGH"

\* every division the fixed-point model performs is exact
AggExact ==
    /\ \A t \in 0..MaxTechTenths :
          ((t * (Unit \div 10)) * RISK_WEIGHTS.technical) % 10 = 0
    /\ (Unit * RISK_WEIGHTS.dependency) % 10 = 0
    /\ (Unit * RISK_WEIGHTS.business) % 10 = 0
    /\ (calculated_risk_value(aggIn) * 10 * Unit) % MAX_CALCULATED_RISK = 0

(***************************************************************************)
(*      The engine operations together: calls in any order, the steps of   *)
(*      a dependency analysis interleaved with the other calls             *)
(***************************************************************************)

\* the data installed by initialize_tools_data, tools.py 15-21
EngineDatasets == { CalendarServices, <<Service("Auth-Service"), Service("auth-service")>> }

EngineCalendars ==
    { <<>>,
      <<[eventName |-> "Security Audit", impactedSystems |-> <<"Auth-Service">>,
         startDate |-> Date(2024, 6, 12), endDate |-> Date(2024, 6, 12),
         criticality |-> "Critical", blackoutWindow |-> TRUE],
        [eventName |-> "Quarter End Close", impactedSystems |-> <<"all-systems">>,
         startDate |-> Date(2024, 6, 12), endDate |-> Date(2024, 6, 15),
         criticality |-> "Critical", blackoutWindow |-> FALSE]>> }

\* the arguments of the calls
EngineNames == {"auth-service", " legacy-crm "}

EngineTargetLists == { <<"auth-service">>, <<"billing-service", "legacy-crm">> }

EngineProposals ==
    { [proposed_dt |-> [date |-> Date(2024, 6, 12), sod |-> 9 * 3600],
       all_involved_services |-> <<"auth service">>],
      [proposed_dt |-> [date |-> Date(2024, 1, 1), sod |-> 0],
       all_involved_services |-> <<>>] }

EngineScores ==
    { [technical |-> 35, dep |-> 1, business |-> 8, priority |-> "High"],
      [technical |-> 100, dep |-> 2, business |-> 0, priority |-> "None"] }

InitEngine ==
    /\ serviceDependencies \in EngineDatasets
    /\ businessEvents \in EngineCalendars
    /\ NormIdle
    /\ DepIdle
    /\ bizIn = Idle
    /\ bizOut = Idle
    /\ aggIn = Idle
    /\ aggOut = Idle
    /\ HttpIdle
    /\ StoreEmpty

\* a caller calls _normalize_service_name
CallNormalize ==
    /\ normOut # NoResult
    /\ normIn' \in [name : EngineNames]
    /\ normOut' = NoResult
    /\ UNCHANGED <<serviceDependencies, businessEvents, depVars, bizIn, bizOut,
                   aggIn, aggOut, httpVars, storeVars>>

\* a caller calls analyze_service_dependencies, tools.py 95-101
CallAnalyzeServiceDependencies ==
    /\ depPc \in {"idle", "done"}
    /\ target_systems' \in EngineTargetLists
    /\ impacted_dependencies' = {}
    /\ stack' = <<>>
    /\ targetIdx' = 1
    /\ depPc' = "loop"
    /\ depOut' = NoResult
    /\ UNCHANGED <<serviceDependencies, businessEvents, normVars, bizIn, bizOut,
                   aggIn, aggOut, httpVars, storeVars>>

\* a caller calls assess_business_impact
CallAssessBusinessImpact ==
    /\ bizOut # NoResult
    /\ bizIn' \in EngineProposals
    /\ bizOut' = NoResult
    /\ UNCHANGED <<serviceDependencies, businessEvents, normVars, depVars, aggIn, aggOut, httpVars, storeVars>>

\* assess_risk reaches its aggregation, main.py 419
CallAggregate ==
    /\ aggOut # NoResult
    /\ aggIn' \in EngineScores
    /\ aggOut' = NoResult
    /\ UNCHANGED <<serviceDependencies, businessEvents, normVars, depVars, bizIn, bizOut, httpVars, storeVars>>

NextEngine ==
    \/ CallNormalize
    \/ Normalize
    \/ CallAnalyzeServiceDependencies
    \/ CallFindDownstream
    \/ VisitDependency
    \/ ScanConsumersAndReturn
    \/ ReturnDependencies
    \/ CallAssessBusinessImpact
    \/ AssessBusinessImpact
    \/ CallAggregate
    \/ Aggregate

SpecEngine == InitEngine /\ [][NextEngine]_vars

\* C13: no step of an engine operation changes the service entries (the directory,
\* the forward edges and the consumedBy lists) or the business events, so after
\* any sequence and interleaving of calls the data is as it was installed
C13_DataNeverChanges ==
    [][ /\ serviceDependencies' = serviceDependencies
        /\ businessEvents' = businessEvents ]_vars

\* every operation has returned a result over data that holds services and events
C13_Witness ==
    /\ serviceDependencies # <<>>
    /\ businessEvents # <<>>
    /\ normOut # Idle /\ normOut # NoResult
    /\ depPc = "done" /\ depOut.kind = "result" /\ depOut.impacted_dependencies # <<>>
    /\ bizOut # Idle /\ bizOut # NoResult /\ bizOut.kind = "result"
    /\ bizOut.overall_business_risk_score > 0
    /\ aggOut # Idle /\ aggOut # NoResult

(***************************************************************************)
(*      Properties of the scores, the level and the merged timeline        *)
(***************************************************************************)

\* the names of the impact events the call recorded, in the order it recorded them
RecordedNames == bizOut.business_summary.conflicts

Recorded(name) == \E i \in 1..Len(RecordedNames) : RecordedNames[i] = name

\* the matching events of the calendar give one of the names that stand for
\* business hours
BusinessHoursEventMatches ==
    \E i \in MatchingEvents : businessEvents[i].eventName \in BUSINESS_HOURS_EVENTS

\* Monday to Friday, 09:00:00 through 17:00:00
NineToFive ==
    /\ ToOrdinal(bizIn.proposed_dt.date) % 7 \in 1..5
    /\ bizIn.proposed_dt.sod >= 9 * 3600
    /\ bizIn.proposed_dt.sod <= 17 * 3600

\* C15: the Peak Hours event is recorded exactly when the proposed instant is on
\* Monday to Friday from 09:00 through 17:00 and no matching event has one of the
\* three business-hours names; at 17:59:59 it is not recorded.
C15_PeakHoursNineToFive ==
    BizReturned => (Recorded("Peak Hours") <=> (NineToFive /\ ~ BusinessHoursEventMatches))

\* what the code does: the hour of the instant is 9 to 17, so the rule fires until
\* 17:59:59
C15_PeakHoursUntilSix ==
    BizReturned =>
        (Recorded("Peak Hours") <=> (InBusinessHours /\ ~ BusinessHoursEventMatches))

\* a Wednesday at 17:59:59 with an empty calendar: Peak Hours is recorded
C15_PeakAfterFive ==
    /\ BizReturned
    /\ bizIn.proposed_dt = [date |-> Date(2024, 6, 12), sod |-> 17 * 3600 + 59 * 60 + 59]
    /\ businessEvents = <<>>
    /\ Recorded("Peak Hours")
    /\ bizOut.overall_business_risk_score = 1

\* the calendar day an entry of the timeline stands for: the proposed day, the day
\* before or the day after, whichever has the entry's month and day
EntryDay(item) ==
    CHOOSE d \in {DayBefore(bizIn.proposed_dt.date), bizIn.proposed_dt.date,
                  DayAfter(bizIn.proposed_dt.date)} : MonthDay(d) = item.date

\* C16: the returned timeline is in ascending order of the calendar days its
\* entries stand for, also when these days lie in two years (stated of the calls
\* that return).
C16_TimelineChronological ==
    BizReturned =>
        \A i, j \in 1..Len(bizOut.business_impact_timeline) :
            i < j => ToOrdinal(EntryDay(bizOut.business_impact_timeline[i]))
                        <= ToOrdinal(EntryDay(bizOut.business_impact_timeline[j]))

\* what the code does: the order is that of month and day alone
C16_TimelineByMonthAndDay ==
    BizReturned =>
        \A i, j \in 1..Len(bizOut.business_impact_timeline) :
            i < j => LET a == bizOut.business_impact_timeline[i].date
                         b == bizOut.business_impact_timeline[j].date
                     IN  a.month < b.month \/ (a.month = b.month /\ a.day <= b.day)

\* 31 December 2023: the Safe Window of 1 January 2024 comes first
C16_NewYearFirst ==
    /\ BizReturned
    /\ bizIn.proposed_dt.date = Date(2023, 12, 31)
    /\ Len(bizOut.business_impact_timeline) = 3
    /\ bizOut.business_impact_timeline[1].date = MonthDay(Date(2024, 1, 1))

\* the entries the call emits before the merge step, in order (tools.py 193-216)
EmittedTimeline ==
    LET acc == add_peak_hours(
                   scan_events(serviceDependencies, businessEvents, bizIn.proposed_dt,
                               BizInvolved, Len(businessEvents)),
                   bizIn.proposed_dt)
    IN  business_impact_timeline_display(
            bizIn.proposed_dt, acc.events, business_impact_final_level(acc.events))

\* what the merge step makes of emitted entries (tools.py 218-235)
Merged(emitted) ==
    LET unique == unique_timeline_items(emitted, bizIn.proposed_dt, Len(emitted))
    IN  [j \in 1..Len(unique) |-> unique[j].item]

\* C17: after the merge step there is one entry for each day that had an emitted
\* entry and no two entries for one day; the level of the entry of a day is the
\* level of an emitted entry of that day and no emitted entry of that day has a
\* higher priority; its label is made of the names of the emitted entries of that
\* day that have this highest priority, each of them once. The timeline a call
\* returns holds exactly the merged entries.
C17_OneEntryPerDayOfHighestPriority ==
    BizDone =>
        LET d == EmittedTimeline
            m == Merged(d)
            on == [i \in 1..Len(m) |-> {k \in 1..Len(d) : d[k].date = m[i].date}]
        IN  /\ \A i, j \in 1..Len(m) : i # j => m[i].date # m[j].date
            /\ \A k \in 1..Len(d) : \E i \in 1..Len(m) : m[i].date = d[k].date
            /\ \A i \in 1..Len(m) :
                   /\ \E k \in on[i] : d[k].level = m[i].level
                   /\ \A k \in on[i] :
                          level_priority(d[k].level) <= level_priority(m[i].level)
                   /\ {m[i].event[a] : a \in 1..Len(m[i].event)}
                          = {d[k].event[1] :
                                k \in {kk \in on[i] : level_priority(d[kk].level)
                                                        = level_priority(m[i].level)}}
                   /\ \A a, b \in 1..Len(m[i].event) :
                          a # b => m[i].event[a] # m[i].event[b]
            /\ bizOut.kind = "result" =>
                   {bizOut.business_impact_timeline[i] :
                        i \in 1..Len(bizOut.business_impact_timeline)}
                      = {m[i] : i \in 1..Len(m)}

\* two events of one name and of criticality High match outside business hours:
\* three entries are emitted for the day and the merged entry names the event once
C17_Witness ==
    /\ BizReturned
    /\ Cardinality(MatchingEvents) = 2
    /\ \A i \in MatchingEvents :
          /\ businessEvents[i].eventName = "Quarter End Close"
          /\ businessEvents[i].criticality = "High"
    /\ ~ InBusinessHours
    /\ Len(EmittedTimeline) = 3
    /\ bizOut.business_impact_timeline =
          << [date |-> MonthDay(bizIn.proposed_dt.date),
              event |-> <<"Quarter End Close">>, level |-> "High"] >>

\* two events of different names and of one criticality: the label joins both names
C17_NamesJoined ==
    /\ BizReturned
    /\ Len(bizOut.business_impact_timeline) = 1
    /\ bizOut.business_impact_timeline[1].event =
          <<"Quarter End Close", "Monthly Payroll Processing">>

\* Proposed Change and Peak Hours, both of level Peak, share the entry of the day
C17_ProposedChangeShares ==
    /\ BizReturned
    /\ Len(bizOut.business_impact_timeline) = 1
    /\ bizOut.business_impact_timeline[1].event = <<"Proposed Change", "Peak Hours">>

\* the points the stated rule gives an event: 5, 3, 1 or 0 for its criticality and
\* 2 more for a blackout window
StatedPoints(event) ==
    (IF event.criticality = "Critical" THEN 5
     ELSE IF event.criticality = "High" THEN 3
     ELSE IF event.criticality = "Medium" THEN 1
     ELSE 0)
    + (IF event.blackoutWindow THEN 2 ELSE 0)

RECURSIVE StatedPointsOf(_)
StatedPointsOf(positions) ==
    IF positions = {} THEN 0
    ELSE LET i == CHOOSE p \in positions : TRUE
         IN  StatedPoints(businessEvents[i]) + StatedPointsOf(positions \ {i})

\* C18: the returned riskScore is the sum, over the matching events, of 5 for
\* Critical, 3 for High, 1 for Medium, 0 for Low and 2 more for a blackout window,
\* plus 1 when Peak Hours was recorded; the other events of the calendar add
\* nothing.
C18_RiskScoreIsSumOfMatches ==
    BizReturned =>
        bizOut.overall_business_risk_score =
            StatedPointsOf(MatchingEvents) + (IF Recorded("Peak Hours") THEN 1 ELSE 0)

\* a High blackout event matches in business hours, a Critical blackout event of
\* the calendar does not match: riskScore 3 + 2 + 1
C18_Witness ==
    /\ BizReturned
    /\ Len(businessEvents) = 2
    /\ Cardinality(MatchingEvents) = 1
    /\ TheMatchingEvent.criticality = "High"
    /\ TheMatchingEvent.blackoutWindow
    /\ \E i \in 1..2 :
          /\ i \notin MatchingEvents
          /\ businessEvents[i].criticality = "Critical"
          /\ businessEvents[i].blackoutWindow
    /\ Recorded("Peak Hours")
    /\ bizOut.overall_business_risk_score = 6

\* seconds since the beginning of 1 January 2000
SecondsAt(date, sod) == (ToOrdinal(date) - ToOrdinal(Date(2000, 1, 1))) * 86400 + sod

\* the stated window: startDate 00:00:00 through endDate 23:59:59
StatedConsidered(event) ==
    /\ SecondsAt(event.startDate, 0) <= SecondsAt(bizIn.proposed_dt.date, bizIn.proposed_dt.sod)
    /\ SecondsAt(bizIn.proposed_dt.date, bizIn.proposed_dt.sod)
          <= SecondsAt(event.endDate, 23 * 3600 + 59 * 60 + 59)

\* the stated match: the wildcard, or an involved service that is, ignoring case,
\* an impacted system, both as the directory names them
StatedMatch(event, involved) ==
    \/ \E k \in 1..Len(event.impactedSystems) : event.impactedSystems[k] = "all-systems"
    \/ \E s \in 1..Len(involved) : \E k \in 1..Len(event.impactedSystems) :
          Lower(involved[s])
              = Lower(normalize_service_name(serviceDependencies, event.impactedSystems[k]))

\* the names of the first i events of the calendar that are considered and match
RECURSIVE StatedRecordedNames(_, _)
StatedRecordedNames(involved, i) ==
    IF i = 0 THEN <<>>
    ELSE IF StatedConsidered(businessEvents[i]) /\ StatedMatch(businessEvents[i], involved)
    THEN Append(StatedRecordedNames(involved, i - 1), businessEvents[i].eventName)
    ELSE StatedRecordedNames(involved, i - 1)

\* C19: the events the call records are, in calendar order, exactly the events
\* whose window startDate 00:00:00 through endDate 23:59:59 holds the proposed
\* instant and whose impactedSystems hold "all-systems" or, ignoring case, a
\* normalized involved service (the impacted systems normalized too).
C19_RecordedAreConsideredAndMatching ==
    BizReturned =>
        LET involved == BizInvolved
        IN  SelectSeq(RecordedNames, LAMBDA n : n # "Peak Hours")
                = StatedRecordedNames(involved, Len(businessEvents))

\* the last second of the end date, no involved service: the all-systems event
\* is recorded
C19_Witness ==
    /\ BizReturned
    /\ bizIn.proposed_dt = [date |-> Date(2024, 6, 15), sod |-> 23 * 3600 + 59 * 60 + 59]
    /\ bizIn.all_involved_services = <<>>
    /\ Len(businessEvents) = 1
    /\ businessEvents[1].endDate = Date(2024, 6, 15)
    /\ RecordedNames = <<"Quarter End Close">>

\* midnight after the end date: the event is not recorded
C19_NextMidnightExcluded ==
    /\ BizReturned
    /\ bizIn.proposed_dt = [date |-> Date(2024, 6, 16), sod |-> 0]
    /\ Len(businessEvents) = 1
    /\ businessEvents[1].endDate = Date(2024, 6, 15)
    /\ RecordedNames = <<>>

\* 'auth service' is involved and the event names 'Auth-Service': recorded
C19_MatchedByNormalizedName ==
    /\ BizReturned
    /\ bizIn.all_involved_services = <<"auth service">>
    /\ Len(businessEvents) = 1
    /\ businessEvents[1].impactedSystems = <<"Auth-Service", "user-database">>
    /\ RecordedNames = <<"Quarter End Close">>

\* the levels of the recorded impact events: the criticalities of the matching
\* events, and Peak when Peak Hours was recorded
RecordedLevels ==
    {businessEvents[i].criticality : i \in MatchingEvents}
        \cup (IF Recorded("Peak Hours") THEN {"Peak"} ELSE {})

\* C20: the returned level is "High" exactly when a recorded event is Critical,
\* otherwise "Medium" exactly when a recorded event is High or Medium, otherwise
\* "Low"; there is no fourth value.
C20_OverallLevel ==
    BizReturned =>
        LET levels == RecordedLevels
        IN  /\ bizOut.business_impact_level \in {"High", "Medium", "Low"}
            /\ bizOut.business_impact_level = "High" <=> "Critical" \in levels
            /\ bizOut.business_impact_level = "Medium" <=>
                   ("Critical" \notin levels /\ levels \cap {"High", "Medium"} # {})
            /\ bizOut.business_impact_level = "Low" <=>
                   levels \cap {"Critical", "High", "Medium"} = {}

\* a Low event and Peak Hours are recorded and the level is "Low"
C20_Witness ==
    /\ BizReturned
    /\ RecordedLevels = {"Low", "Peak"}
    /\ bizOut.business_impact_level = "Low"
    /\ bizOut.overall_business_risk_score = 1

(***************************************************************************)
(*                 Properties of the ceiling of the raw value              *)
(***************************************************************************)

\* C21: MAX_CALCULATED_RISK is an upper bound of the raw value the aggregation
\* forms, 0.4*technical + 0.3*dependencyCount + 0.3*business plus the adjustment
\* of the priority, for every technical score up to 10.0 and every count and
\* business score the aggregation is given.
C21_RawAtMostCeiling ==
    AggDone =>
        /\ aggOut.raw <= MAX_CALCULATED_RISK
        /\ StatedRawHundredths(aggIn) <= 1500

\* technical 10.0, 14 impacted dependencies, business score 14 (two Critical
\* blackout events), priority Critical: the raw value is 15.4
C21_AboveCeiling ==
    /\ AggDone
    /\ aggIn = [technical |-> 100, dep |-> 14, business |-> 14, priority |-> "Critical"]
    /\ StatedRawHundredths(aggIn) = 1540
    /\ aggOut.raw > MAX_CALCULATED_RISK

(***************************************************************************)
(*   The handlers assess_risk and reassess_business_impact (main.py) and   *)
(*   the timestamp string they pass to assess_business_impact              *)
(***************************************************************************)

\* a proposed_datetime string: either its text has the form YYYY-MM-DDTHH:MM:SS,
\* and these are its six numbers, or it has not
Timestamp(y, mo, d, h, mi, sec) ==
    [iso |-> TRUE, year |-> y, month |-> mo, day |-> d,
     hour |-> h, minute |-> mi, second |-> sec]

NotATimestamp == [iso |-> FALSE, year |-> 0, month |-> 0, day |-> 0,
                  hour |-> 0, minute |-> 0, second |-> 0]

\* datetime.fromisoformat, tools.py 141: ValueError unless the text has the form
\* and names a day of the calendar and a time of the day
fromisoformat_raises(str) ==
    \/ ~ str.iso
    \/ str.year \notin 1..9999
    \/ str.month \notin 1..12
    \/ str.day \notin 1..DaysInMonth(str.year, str.month)
    \/ str.hour \notin 0..23
    \/ str.minute \notin 0..59
    \/ str.second \notin 0..59

fromisoformat(str) ==
    [date |-> [year |-> str.year, month |-> str.month, day |-> str.day],
     sod |-> str.hour * 3600 + str.minute * 60 + str.second]

\* the message of the ValueError of datetime.fromisoformat: the text has not the
\* form, or the first of its numbers that is out of range
fromisoformat_message(str) ==
    IF ~ str.iso THEN "Invalid isoformat string"
    ELSE IF str.year \notin 1..9999 THEN "year 0 is out of range"
    ELSE IF str.month \notin 1..12 THEN "month must be in 1..12"
    ELSE IF str.day \notin 1..DaysInMonth(str.year, str.month)
         THEN "day is out of range for month"
    ELSE IF str.hour \notin 0..23 THEN "hour must be in 0..23"
    ELSE IF str.minute \notin 0..59 THEN "minute must be in 0..59"
    ELSE "second must be in 0..59"

\* the message of the ValueError of datetime.strptime (tools.py 237) on 29
\* February without a year
STRPTIME_MESSAGE == "day is out of range for month"

\* tools.py 138-246 on the string the caller gives
assess_business_impact_str(deps, events, proposed_datetime_str, all_involved_services) ==
    IF fromisoformat_raises(proposed_datetime_str)
    THEN [kind |-> "ValueError",
          message |-> fromisoformat_message(proposed_datetime_str)]
    ELSE LET out == assess_business_impact(deps, events,
                        fromisoformat(proposed_datetime_str), all_involved_services)
         IN  IF out.kind = "ValueError"
             THEN [kind |-> "ValueError", message |-> STRPTIME_MESSAGE]
             ELSE out

\* main.py 371-372 and 477-481: the exceptions assess_risk raises
HTTPException(status_code, detail) ==
    [kind |-> "HTTPException", status_code |-> status_code, detail |-> detail]

InternalError(message) == HTTPException(500, <<"An internal error occurred", message>>)

\* main.py 477-481: what assess_risk makes of the exception of a tool. With
\* _defaulting the handler would answer with an empty business impact instead.
tool_failure_defaulting(exception) ==
    [kind |-> "success", risk_score |-> 100, risk_level |-> "LOW",
     impacted_dependencies |-> <<>>, business_impact_timeline |-> <<>>,
     overall_business_risk_score |-> 0]
tool_failure(exception) == InternalError(exception.message)

\* main.py 419-475: the aggregation and the response of assess_risk
assess_risk_response(request, technical_risk_score, dependency_analysis_output, business_impact_output) ==
    LET scores == [technical |-> technical_risk_score,
                   dep |-> num_impacted_dependencies(dependency_analysis_output),
                   business |-> business_impact_output.overall_business_risk_score,
                   priority |-> request.priority]
        credit == credit_score(normalized_risk(calculated_risk_value(scores)))
    IN  [kind |-> "success", risk_score |-> credit, risk_level |-> risk_level(credit),
         impacted_dependencies |-> dependency_analysis_output.impacted_dependencies,
         business_impact_timeline |-> business_impact_output.business_impact_timeline,
         overall_business_risk_score |->
             business_impact_output.overall_business_risk_score]

\* main.py 369-413: the agent is missing, or it is called and its reply is parsed;
\* then the tools run, the dependency analysis among them (main.py 413)
AssessRiskBegin ==
    /\ httpOut = NoResult
    /\ httpIn.handler = "assess_risk"
    /\ depPc = "idle"
    /\ IF httpIn.agent = "none"
       THEN /\ httpOut' = HTTPException(500, <<"AI Agent not initialized.">>)
            /\ UNCHANGED depVars
       ELSE IF httpIn.reply # "json"
       THEN /\ httpOut' = InternalError("Expecting value")
            /\ UNCHANGED depVars
       ELSE /\ target_systems' = httpIn.target_systems
            /\ depPc' = "loop"
            /\ depOut' = NoResult
            /\ UNCHANGED <<httpOut, impacted_dependencies, stack, targetIdx>>
    /\ UNCHANGED <<serviceDependencies, businessEvents, httpIn, normVars,
                   bizIn, bizOut, aggIn, aggOut, storeVars>>

\* the handler is about to call assess_business_impact: reassess_business_impact
\* at once (main.py 486), assess_risk when the dependency analysis has returned
\* (main.py 414)
BusinessImpactNext ==
    \/ httpIn.handler = "reassess_business_impact"
    \/ httpIn.handler = "assess_risk" /\ depPc = "done"

\* main.py 414-417 and 486-490: assess_business_impact on the timestamp of the
\* request, and on the services of the request (reassess_business_impact) or those
\* the dependency analysis returned (assess_risk). reassess_business_impact
\* returns what the call returns and lets its exception through; in assess_risk
\* the exception ends the handler (main.py 477-481).
HandlerAssessBusinessImpact ==
    /\ httpOut = NoResult
    /\ bizOut = Idle
    /\ BusinessImpactNext
    /\ bizOut' = assess_business_impact_str(serviceDependencies, businessEvents,
                        httpIn.proposed_datetime,
                        IF httpIn.handler = "assess_risk"
                        THEN depOut.all_involved_services
                        ELSE httpIn.all_involved_services)
    /\ httpOut' = IF httpIn.handler = "reassess_business_impact" THEN bizOut'
                  ELSE IF bizOut'.kind = "ValueError" THEN tool_failure(bizOut')
                  ELSE httpOut
    /\ UNCHANGED <<serviceDependencies, businessEvents, httpIn, normVars, depVars,
                   bizIn, aggIn, aggOut, storeVars>>

\* main.py 437: the id of a new change is made of the clock's whole seconds
new_change_id(timestamp) == <<"CHG-AI", timestamp>>

\* main.py 460-473: the entry assess_risk appends; rejectionReason and
\* feedbackType are the keys reject_change adds, None while the entry has none
new_change(request, changeId, response) ==
    [changeId |-> changeId, priority |-> request.priority,
     riskScore |-> response.risk_score, riskLevel |-> response.risk_level,
     status |-> "AI Assessed", recommendedAction |-> "Review AI Analysis",
     rejectionReason |-> None, feedbackType |-> None]

\* main.py 419-475: the aggregation, the new entry of active_change_requests and
\* the response
AssessRiskEnd ==
    /\ httpOut = NoResult
    /\ httpIn.handler = "assess_risk"
    /\ bizOut # Idle
    /\ bizOut.kind = "result"
    /\ httpOut' = assess_risk_response(httpIn, httpIn.technical_risk_score, depOut, bizOut)
    /\ active_change_requests' =
          Append(active_change_requests, new_change(httpIn, new_change_id(now), httpOut'))
    /\ UNCHANGED <<serviceDependencies, businessEvents, httpIn, normVars, depVars,
                   bizIn, bizOut, aggIn, aggOut, risk_history_items,
                   fileChangeRequests, now>>

\* the timestamps a request may carry: well-formed ones, and ones that do not
\* parse (no timestamp at all, 30 February, 29 February of a common year, month
\* 13, hour 24, minute 60)
WellFormedTimestamps ==
    { Timestamp(2024, 6, 12, 9, 0, 0), Timestamp(2024, 1, 1, 0, 0, 0),
      Timestamp(2024, 2, 29, 10, 0, 0) }

MalformedTimestamps ==
    { NotATimestamp, Timestamp(2024, 2, 30, 9, 0, 0), Timestamp(2023, 2, 29, 9, 0, 0),
      Timestamp(2024, 13, 1, 9, 0, 0), Timestamp(2024, 6, 12, 24, 0, 0),
      Timestamp(2024, 6, 12, 9, 60, 0) }

\* assess_technical_risk draws its score at random (tools.py 84-85); in tenths
TechnicalScores == {20, 100}

AssessRiskRequests ==
    [handler : {"assess_risk"},
     proposed_datetime : WellFormedTimestamps \cup MalformedTimestamps,
     target_systems : EngineTargetLists,
     priority : {"None", "Critical"},
     agent : {"none", "ready"},
     reply : {"json", "text"},
     technical_risk_score : TechnicalScores]

ReassessRequests ==
    [handler : {"reassess_business_impact"},
     proposed_datetime : WellFormedTimestamps \cup MalformedTimestamps,
     all_involved_services : InvolvedChoices]

InitHttp ==
    /\ serviceDependencies = CalendarServices
    /\ businessEvents \in EngineCalendars
    /\ httpIn \in AssessRiskRequests \cup ReassessRequests
    /\ httpOut = NoResult
    /\ NormIdle
    /\ DepIdle
    /\ bizIn = Idle
    /\ bizOut = Idle
    /\ aggIn = Idle
    /\ aggOut = Idle
    /\ StoreEmpty

NextHttp ==
    \/ AssessRiskBegin
    \/ CallFindDownstream
    \/ VisitDependency
    \/ ScanConsumersAndReturn
    \/ ReturnDependencies
    \/ HandlerAssessBusinessImpact
    \/ AssessRiskEnd

SpecHttp == InitHttp /\ [][NextHttp]_vars

(***************************************************************************)
(*                  Properties of the malformed timestamp                  *)
(***************************************************************************)

HttpDone == httpIn # Idle /\ httpOut # Idle /\ httpOut # NoResult

MalformedRequest == httpIn # Idle /\ httpIn.proposed_datetime \in MalformedTimestamps

\* the handler got as far as calling assess_business_impact
BusinessImpactCalled ==
    \/ httpIn.handler = "reassess_business_impact"
    \/ httpIn.handler = "assess_risk" /\ httpIn.agent = "ready" /\ httpIn.reply = "json"

\* the involved services the handler gives to assess_business_impact
HttpInvolved ==
    IF httpIn.handler = "reassess_business_impact"
    THEN httpIn.all_involved_services
    ELSE depOut.all_involved_services

\* C14: when the proposed date/time string does not parse, assess_business_impact
\* returns nothing but raises, and the handler that called it ends in an error that
\* carries the parser's complaint about the string: reassess_business_impact lets
\* the ValueError through, assess_risk raises an HTTPException with the
\* ValueError's message in its detail. No handler returns a response for such a
\* request, with or without a default in it.
C14_MalformedTimestampRejected ==
    (HttpDone /\ MalformedRequest) =>
        /\ httpOut.kind \in {"ValueError", "HTTPException"}
        /\ BusinessImpactCalled =>
               /\ assess_business_impact_str(serviceDependencies, businessEvents,
                      httpIn.proposed_datetime, HttpInvolved).kind = "ValueError"
               /\ httpIn.handler = "reassess_business_impact" =>
                      httpOut = [kind |-> "ValueError",
                                 message |-> fromisoformat_message(httpIn.proposed_datetime)]
               /\ httpIn.handler = "assess_risk" =>
                      httpOut = InternalError(fromisoformat_message(httpIn.proposed_datetime))

\* assess_risk has called the agent and the dependency analysis, and then the
\* timestamp of the request, 30 February, stopped it
C14_Witness ==
    /\ HttpDone
    /\ httpIn.handler = "assess_risk"
    /\ httpIn.proposed_datetime = Timestamp(2024, 2, 30, 9, 0, 0)
    /\ depPc = "done"
    /\ depOut.impacted_dependencies # <<>>
    /\ httpOut = InternalError("day is out of range for month")

\* a well-formed request is answered
C14_WellFormedAnswered ==
    /\ HttpDone
    /\ httpIn.handler = "assess_risk"
    /\ httpIn.proposed_datetime \in WellFormedTimestamps
    /\ httpOut.kind = "success"
    /\ httpOut.business_impact_timeline # <<>>

(***************************************************************************)
(*   The change requests in flight and the risk history (main.py):         *)
(*   startup, assess_risk, approve_change and reject_change in sequence    *)
(***************************************************************************)

\* a change request of the dataset file
FileChange(changeId, riskLevel) ==
    [changeId |-> changeId, priority |-> "Medium", riskScore |-> 50,
     riskLevel |-> riskLevel, status |-> "Pending", recommendedAction |-> None,
     rejectionReason |-> None, feedbackType |-> None]

\* main.py 112-118: startup writes status and recommendedAction into every change
startup_defaults(changes) ==
    [i \in 1..Len(changes) |->
        IF changes[i].riskLevel \in {"High", "Critical"}
        THEN [changes[i] EXCEPT !.status = "AI Assessed",
                                !.recommendedAction = "Review AI Analysis"]
        ELSE [changes[i] EXCEPT !.status = "Approved",
                                !.recommendedAction = "Proceed as Planned"]]

\* main.py 111: active_change_requests is GUARDIANOPS_DATASET.get('changeRequests',
\* []). When the file has the key, the name is bound to the list the dataset
\* holds, the dataset tools._GUARDIANOPS_DATASET is bound to (tools.py 18): one
\* list object under two names. When the file has no such key, the list is a new
\* one and the dataset has none.
DatasetChangeRequests ==
    IF fileChangeRequests = Absent THEN Absent ELSE Present(active_change_requests)

\* main.py 121-135: the historical failures of the file, as startup records them
Incident(changeId, riskLevel) ==
    [type |-> "incident", changeId |-> changeId, status |-> None, decision |-> None,
     riskLevel |-> riskLevel, riskScore |-> None, rejectionReason |-> None]

\* main.py 307-308 and 337-338: the position of the first change of this id, 0
\* when there is none
first_with_id(changes, change_id) ==
    IF \E i \in 1..Len(changes) : changes[i].changeId = change_id
    THEN CHOOSE i \in 1..Len(changes) :
            /\ changes[i].changeId = change_id
            /\ \A j \in 1..(i - 1) : changes[j].changeId # change_id
    ELSE 0

\* main.py 313-327 and 345-361
history_entry(change, decision) ==
    [type |-> "completed_change", changeId |-> change.changeId, status |-> decision,
     decision |-> decision, riskLevel |-> change.riskLevel, riskScore |-> change.riskScore,
     rejectionReason |-> change.rejectionReason]

\* no handler is between its first and its last step
HandlerFree == httpIn = Idle \/ httpOut # NoResult

\* the bounds of the explored sequences: changes in flight, entries of the
\* history, seconds the clock advances
MaxChanges == 2
MaxHistory == 3
MaxClock == 1

\* the ids a caller may name: those of the changes in flight and an unknown one
KnownIds == {active_change_requests[i].changeId : i \in 1..Len(active_change_requests)}
UnknownId == <<"CHG", 404>>

\* main.py 304-332. With _recording_unknown the handler would write the history
\* entry of a decision before it looks the change up.
approve_change_recording_unknown(change_id) ==
    /\ HandlerFree
    /\ Len(risk_history_items) < MaxHistory
    /\ httpIn' = [handler |-> "approve_change", change_id |-> change_id]
    /\ risk_history_items' =
          <<history_entry([changeId |-> change_id, riskLevel |-> "UNKNOWN",
                           riskScore |-> None, rejectionReason |-> None], "Approved")>>
              \o risk_history_items
    /\ LET i == first_with_id(active_change_requests, change_id)
       IN  IF i = 0
           THEN /\ httpOut' = HTTPException(404, <<"Change not found.">>)
                /\ UNCHANGED active_change_requests
           ELSE /\ active_change_requests' =
                      [active_change_requests EXCEPT
                          ![i].status = "Approved",
                          ![i].recommendedAction = "Approved by Human"]
                /\ httpOut' = [kind |-> "success"]
    /\ UNCHANGED <<serviceDependencies, businessEvents, normVars, depVars, bizIn, bizOut,
                   aggIn, aggOut, fileChangeRequests, now>>
approve_change(change_id) ==
    /\ HandlerFree
    /\ httpIn' = [handler |-> "approve_change", change_id |-> change_id]
    /\ LET i == first_with_id(active_change_requests, change_id)
       IN  IF i = 0
           THEN /\ httpOut' = HTTPException(404, <<"Change not found.">>)
                /\ UNCHANGED <<active_change_requests, risk_history_items>>
           ELSE /\ Len(risk_history_items) < MaxHistory
                /\ active_change_requests' =
                      [active_change_requests EXCEPT
                          ![i].status = "Approved",
                          ![i].recommendedAction = "Approved by Human"]
                /\ risk_history_items' =
                      <<history_entry(active_change_requests'[i], "Approved")>>
                          \o risk_history_items
                /\ httpOut' = [kind |-> "success"]
    /\ UNCHANGED <<serviceDependencies, businessEvents, normVars, depVars, bizIn, bizOut,
                   aggIn, aggOut, fileChangeRequests, now>>

\* main.py 334-366
reject_change(change_id, reason, feedbackType) ==
    /\ HandlerFree
    /\ httpIn' = [handler |-> "reject_change", change_id |-> change_id]
    /\ LET i == first_with_id(active_change_requests, change_id)
       IN  IF i = 0
           THEN /\ httpOut' = HTTPException(404, <<"Change not found.">>)
                /\ UNCHANGED <<active_change_requests, risk_history_items>>
           ELSE /\ Len(risk_history_items) < MaxHistory
                /\ active_change_requests' =
                      [active_change_requests EXCEPT
                          ![i].status = "Rejected",
                          ![i].recommendedAction = "Rejected by Human",
                          ![i].rejectionReason = reason,
                          ![i].feedbackType = feedbackType]
                /\ risk_history_items' =
                      <<history_entry(active_change_requests'[i], "Rejected")>>
                          \o risk_history_items
                /\ httpOut' = [kind |-> "success"]
    /\ UNCHANGED <<serviceDependencies, businessEvents, normVars, depVars, bizIn, bizOut,
                   aggIn, aggOut, fileChangeRequests, now>>

ApproveChange == \E change_id \in KnownIds \cup {UnknownId} : approve_change(change_id)

RejectChange ==
    \E change_id \in KnownIds \cup {UnknownId} : reject_change(change_id, "too risky", "none")

\* the requests to assess_risk that are explored: a timestamp that parses, one
\* that does not and 29 February, with the agent missing, replying JSON or
\* replying text
StoreRequests ==
    [handler : {"assess_risk"},
     proposed_datetime : { Timestamp(2024, 6, 12, 9, 0, 0), NotATimestamp,
                           Timestamp(2024, 2, 29, 10, 0, 0) },
     target_systems : { <<"auth-service">> },
     priority : {"Critical"},
     agent : {"none", "ready"},
     reply : {"json", "text"},
     technical_risk_score : {20}]

\* a client posts to /api/assess_risk; the handlers run one after another
ReceiveAssessRisk ==
    /\ HandlerFree
    /\ Len(active_change_requests) < MaxChanges
    /\ httpIn' \in StoreRequests
    /\ httpOut' = NoResult
    /\ target_systems' = <<>>
    /\ impacted_dependencies' = {}
    /\ stack' = <<>>
    /\ targetIdx' = 1
    /\ depPc' = "idle"
    /\ depOut' = Idle
    /\ bizOut' = Idle
    /\ UNCHANGED <<serviceDependencies, businessEvents, normVars, bizIn, aggIn, aggOut,
                   storeVars>>

\* a second of the clock passes
Tick ==
    /\ now < MaxClock
    /\ now' = now + 1
    /\ UNCHANGED <<serviceDependencies, businessEvents, normVars, depVars, httpVars,
                   bizIn, bizOut, aggIn, aggOut, active_change_requests,
                   risk_history_items, fileChangeRequests>>

\* the dataset files: one without change requests and failures, one with a change
\* of risk level High and the failure it caused
FileChanges == { Absent, Present(<<FileChange(<<"CHG", 1>>, "High")>>) }

\* main.py 70-145: the state after startup
InitChanges ==
    /\ serviceDependencies = CalendarServices
    /\ businessEvents = <<>>
    /\ fileChangeRequests \in FileChanges
    /\ active_change_requests =
          startup_defaults(fileChangeRequests.changes)
    /\ risk_history_items =
          [i \in 1..Len(fileChangeRequests.changes) |->
              Incident(fileChangeRequests.changes[i].changeId,
                       fileChangeRequests.changes[i].riskLevel)]
    /\ now = 0
    /\ HttpIdle
    /\ NormIdle
    /\ DepIdle
    /\ bizIn = Idle
    /\ bizOut = Idle
    /\ aggIn = Idle
    /\ aggOut = Idle

NextChanges ==
    \/ ReceiveAssessRisk
    \/ AssessRiskBegin
    \/ CallFindDownstream
    \/ VisitDependency
    \/ ScanConsumersAndReturn
    \/ ReturnDependencies
    \/ HandlerAssessBusinessImpact
    \/ AssessRiskEnd
    \/ ApproveChange
    \/ RejectChange
    \/ Tick

SpecChanges == InitChanges /\ [][NextChanges]_vars

(***************************************************************************)
(*   Properties of the change requests in flight and of the risk history   *)
(***************************************************************************)

\* the dataset's change requests as startup left them (main.py 111-118)
LoadedChangeRequests ==
    IF fileChangeRequests = Absent THEN Absent
    ELSE Present(startup_defaults(fileChangeRequests.changes))

\* C22: the dataset the engine holds shares nothing with the list of changes in
\* flight: after startup, whatever assess_risk, approve_change and reject_change
\* do, the dataset's changeRequests stay as they were loaded.
C22_DatasetStaysAsLoaded == DatasetChangeRequests = LoadedChangeRequests

\* the dataset's list holds a change assess_risk made, or a decision of a human
C22_DatasetFollowsTheList ==
    /\ DatasetChangeRequests # Absent
    /\ \E i \in 1..Len(DatasetChangeRequests.changes) :
          \/ DatasetChangeRequests.changes[i].changeId[1] = "CHG-AI"
          \/ DatasetChangeRequests.changes[i].status \in {"Rejected"}

(***************************************************************************)
(*        Properties of the reverse lookup, of the order of the targets    *)
(*        and of the proposed days around 29 February                      *)
(***************************************************************************)

\* the names a step of find_downstream adds to the impacted set
AddedNames == impacted_dependencies' \ impacted_dependencies

\* tools.py 112-117 and the return: the innermost call ends in this step
InnermostReturns == stack # <<>> /\ Len(stack') = Len(stack) - 1 /\ depPc' = "loop"

RECURSIVE find_downstream(_, _, _, _)
RECURSIVE walk_dependencies(_, _, _, _, _)
find_downstream(deps, system_name, impacted, targets) ==
    LET normalized_system == normalize_service_name(deps, system_name)
    IN  IF InGraph(deps, normalized_system)
        THEN LET walked == walk_dependencies(deps, GraphDeps(deps, normalized_system), 1,
                                             impacted, targets)
             IN  walked \cup {n \in reverse_matches(deps, normalized_system) :
                                 not_yet_recorded(n, walked, targets)}
        ELSE impacted

\* tools.py 106-110: the loop over the direct dependencies, from the i-th on
walk_dependencies(deps, dependencies, i, impacted, targets) ==
    IF i > Len(dependencies) THEN impacted
    ELSE LET normalized_dep == normalize_service_name(deps, dependencies[i])
         IN  IF not_yet_recorded(normalized_dep, impacted, targets)
             THEN walk_dependencies(deps, dependencies, i + 1,
                     find_downstream(deps, normalized_dep, impacted \cup {normalized_dep},
                                     targets),
                     targets)
             ELSE walk_dependencies(deps, dependencies, i + 1, impacted, targets)

\* tools.py 98-135 as a function of the dataset and of the list of targets given
RECURSIVE visit_targets(_, _, _, _, _)
visit_targets(deps, systems, i, impacted, targets) ==
    IF i > Len(systems) THEN impacted
    ELSE visit_targets(deps, systems, i + 1,
                       find_downstream(deps, systems[i], impacted, targets), targets)

analyze_service_dependencies(deps, given_systems) ==
    dependency_result(
        visit_targets(deps, normalized_target_systems(deps, given_systems), 1, {},
                      all_target_systems_set(deps, given_systems)),
        all_target_systems_set(deps, given_systems))

\* the call that ran step by step returned what the function gives for its inputs
StepwiseAgreesWithFunction ==
    DepReturned => depOut = analyze_service_dependencies(serviceDependencies, target_systems)

\* other lists of the same target names: the list reversed, and the list with its
\* first name given once more at the end
Reversed(l) == [i \in 1..Len(l) |-> l[Len(l) + 1 - i]]

SameTargetsOtherwise(l) ==
    {Reversed(l)} \cup (IF l = <<>> THEN {} ELSE {Append(l, l[1])})

\* C24: the result of analyze_service_dependencies depends only on the set of the
\* targets: the same names in another order, or with one of them twice, give the
\* same target_systems_analyzed, impacted_dependencies and all_involved_services.
C24_OnlyTheSetOfTargets ==
    DepReturned =>
        \A other \in SameTargetsOtherwise(target_systems) :
            LET result == analyze_service_dependencies(serviceDependencies, other)
            IN  /\ result.target_systems_analyzed = depOut.target_systems_analyzed
                /\ result.impacted_dependencies = depOut.impacted_dependencies
                /\ result.all_involved_services = depOut.all_involved_services

\* what does hold: the targets analyzed are the same for every order
C24_TargetsAnalyzedOnly ==
    DepReturned =>
        \A other \in SameTargetsOtherwise(target_systems) :
            analyze_service_dependencies(serviceDependencies, other).target_systems_analyzed
                = depOut.target_systems_analyzed

\* the proposed day, the day before it or the day after it is 29 February
NearLeapDay ==
    \E d \in {DayBefore(bizIn.proposed_dt.date), bizIn.proposed_dt.date,
              DayAfter(bizIn.proposed_dt.date)} : MonthDay(d) = MonthDay(Date(2024, 2, 29))

\* C25: assess_business_impact returns a result and raises nothing for every
\* proposed instant that parses, given well-formed events, 29 February of a leap
\* year and the days next to it included.
C25_ReturnsOnEveryDay == BizDone => bizOut.kind = "result"

\* the call raised on a day next to 29 February, or on 29 February itself
C25_RaisedNearLeapDay == BizDone /\ bizOut.kind # "result" /\ NearLeapDay

\* away from 29 February every call returns a result
C25_ReturnsAwayFromLeapDay == (BizDone /\ ~ NearLeapDay) => bizOut.kind = "result"

\* C26: after any sequence of assess_risk calls, two of them completing in the
\* same second of the clock included, the changes in flight have pairwise distinct
\* changeId values, so that approve_change(id) and reject_change(id) act on the
\* one change the id was issued for.
C26_DistinctChangeIds ==
    \A i, j \in 1..Len(active_change_requests) :
        i # j => active_change_requests[i].changeId # active_change_requests[j].changeId

\* two changes carry one id, and a decision taken by that id reached the first only
C26_DecisionOnFirstOfTwo ==
    /\ Len(active_change_requests) = 2
    /\ active_change_requests[1].changeId = active_change_requests[2].changeId
    /\ active_change_requests[1].status = "Rejected"
    /\ active_change_requests[2].status = "AI Assessed"

\* assess_risk calls that complete in different seconds issue different ids
C26_DistinctAcrossSeconds ==
    [][ Len(active_change_requests') > Len(active_change_requests) =>
          \A i \in 1..Len(active_change_requests) :
              active_change_requests[i].changeId[1] = "CHG-AI" =>
                 (active_change_requests[i].changeId[2] # now
                     => active_change_requests[i].changeId
                          # active_change_requests'[Len(active_change_requests')].changeId)
      ]_vars

\* the positions of the 'completed_change' entries the history holds for an id
CompletedEntries(change_id) ==
    {k \in 1..Len(risk_history_items) :
        /\ risk_history_items[k].type = "completed_change"
        /\ risk_history_items[k].changeId = change_id}

\* the id of this change is the id of no other change in flight
IdIssuedOnce(i) ==
    \A j \in 1..Len(active_change_requests) :
        j # i => active_change_requests[j].changeId # active_change_requests[i].changeId

\* C27: after any sequence of approve_change and reject_change calls the history
\* holds at most one 'completed_change' entry per change request and the decision
\* of that entry is the current status of the change: a change that was approved
\* or rejected is not decided a second time.
C27_DecidedAtMostOnce ==
    \A i \in 1..Len(active_change_requests) :
        IdIssuedOnce(i) =>
            /\ Cardinality(CompletedEntries(active_change_requests[i].changeId)) <= 1
            /\ \A k \in CompletedEntries(active_change_requests[i].changeId) :
                  risk_history_items[k].decision = active_change_requests[i].status

\* a change was approved and then rejected: two entries, the older one says
\* Approved while the change is Rejected
C27_ApprovedThenRejected ==
    /\ Len(active_change_requests) = 1
    /\ active_change_requests[1].status = "Rejected"
    /\ Len(risk_history_items) >= 2
    /\ risk_history_items[1].type = "completed_change"
    /\ risk_history_items[1].decision = "Rejected"
    /\ risk_history_items[2].type = "completed_change"
    /\ risk_history_items[2].decision = "Approved"
    /\ risk_history_items[2].changeId = active_change_requests[1].changeId

\* what does hold: the newest entry of a change whose id was issued once carries
\* its current status
C27_NewestEntryIsStatus ==
    \A i \in 1..Len(active_change_requests) :
        (IdIssuedOnce(i) /\ CompletedEntries(active_change_requests[i].changeId) # {}) =>
            LET entries == CompletedEntries(active_change_requests[i].changeId)
                newest == CHOOSE k \in entries : \A m \in entries : k <= m
            IN  risk_history_items[newest].decision = active_change_requests[i].status

\* a handler has ended in an exception
CallFailed == httpOut # Idle /\ httpOut # NoResult /\ httpOut.kind = "HTTPException"

\* C28: a failing call changes no state: when assess_risk fails at any step (no
\* agent, a reply that is no JSON, a malformed proposed timestamp) and when
\* approve_change or reject_change is given an unknown id, the changes in flight
\* and the risk history are as they were before the call. No step of a running
\* call and no step that ends a call in an exception writes to either list: both
\* are written only in the step in which a call answers with success.
C28_FailingCallChangesNothing ==
    [][ ( \/ active_change_requests' # active_change_requests
          \/ risk_history_items' # risk_history_items )
            => ( /\ httpOut' # NoResult
                 /\ httpOut'.kind = "success" ) ]_vars

\* with a change in flight and a decision in the history, assess_risk failed on a
\* malformed timestamp, and before it a decision named an unknown id
C28_Witness ==
    /\ CallFailed
    /\ httpIn.handler = "assess_risk"
    /\ httpIn.agent = "ready"
    /\ httpIn.reply = "json"
    /\ httpIn.proposed_datetime = NotATimestamp
    /\ Len(active_change_requests) >= 1
    /\ \E k \in 1..Len(risk_history_items) : risk_history_items[k].type = "completed_change"

\* a decision on an unknown id was answered with 404
C28_UnknownIdAnswered ==
    /\ CallFailed
    /\ httpIn.handler \in {"approve_change", "reject_change"}
    /\ httpOut.status_code = 404
    /\ Len(active_change_requests) >= 1

====
